---- MODULE Spec2Model ----
(***************************************************************************)
(* Response-time analytics for community issues and pull requests.         *)
(*                                                                         *)
(* Dates are modelled at one-hour resolution: a Date is the integer number *)
(* of hours since the Unix epoch (getTime() / 3600000), and the host time  *)
(* zone is a fixed whole-hour offset tz (local time = UTC + tz).  The      *)
(* epoch day, 1970-01-01, is a Thursday.  SpecSplit alone keeps start,     *)
(* mid and end in milliseconds (getTime()) and the hours as doubles.       *)
(*                                                                         *)
(* A nullable value (T | null) is a sequence of length at most one:        *)
(* Null for null and Some(v) for a value.  A missing login (user?.login    *)
(* undefined) is the empty string, which JavaScript treats as falsy just   *)
(* like undefined.                                                         *)
(***************************************************************************)
EXTENDS Integers, Sequences, FiniteSets, TLC

VARIABLES
    tz,             \* host time-zone offset in hours (local = UTC + tz)
    start,          \* calculateWorkingHours / isWithinOneWorkingDay argument
    end,            \* calculateWorkingHours / isWithinOneWorkingDay argument
    hours,          \* value returned by calculateWorkingHours(start, end)
    within,         \* value returned by isWithinOneWorkingDay(start, end)
    config,         \* config.json: repositories, excludeTeams, excludeBots
    startDate,      \* main: the start of the date range parseArgs() returns
    endDate,        \* main: the end of the date range parseArgs() returns
    remote,         \* what the remote service holds: rosters, search results
    faults,         \* the remote calls that fail, and how
    orgMembers,     \* GitHubAnalytics.orgMembers
    excludedUsers,  \* GitHubAnalytics.excludedUsers
    pc,             \* where main() stands
    teamIdx,        \* buildExcludeList: index of the team being fetched
    repoIdx,        \* fetchAllData: index of the repository being fetched
    searchResults,  \* fetchIssues / fetchPullRequests: the search results
    issueIdx,       \* fetchIssues: index of the search result being processed
    issues,         \* fetchIssues: the records collected so far
    prs,            \* fetchPullRequests: the records collected so far
    batchStart,     \* fetchPullRequests: i, offset of the current batch
    tasks,          \* the processPullRequest calls of the current batch
    allData,        \* fetchAllData: the records collected so far
    requests,       \* remote requests issued so far
    error,          \* the error main() caught, if any
    weekStart,      \* value returned by getWeekStart(start)
    responseTimes,  \* calculateStats argument
    stats,          \* value returned by calculateStats(responseTimes)
    env,            \* process.env: SLACK_WEBHOOK_URL, SLACK_POST_FULL_REPORT
    data,           \* main: the records fetchAllData returned
    metrics,        \* main: calculateOverallMetrics(data)
    weeklySummary,  \* main: calculateWeeklySummary(data)
    console,        \* what main() has written to the console, in order
    csv,            \* the CSV file saveCSV has written, if any
    slack,          \* the message delivered to the Slack webhook, if any
    exitCode,       \* the status the process has exited with, if it has
    weekStartStr,   \* value returned by formatDate(weekStart)
    mid,            \* an instant between start and end
    split,          \* calculateWorkingHours of (start, mid) and of (mid, end)
    teamMembersCache, \* first GitHubAnalytics class: teamMembersCache
    repoTeamMembers,  \* first GitHubAnalytics class: repoTeamMembers
    teamCalls,      \* the teams.listMembersInOrg requests issued, in order
    builds          \* the calls of buildRepoTeamCache: where each stands, the
                    \* slugs of its allTeams still to fetch, and whether the
                    \* calls before it had returned when it was made

durationVars == <<start, end, hours, within, weekStart, weekStartStr, mid, split>>
statsVars == <<responseTimes, stats>>
memberVars == <<orgMembers, excludedUsers>>
fetchVars == <<teamIdx, repoIdx, searchResults, issueIdx, issues, prs,
               batchStart, tasks, allData>>
reportVars == <<data, metrics, weeklySummary, console, csv, slack, exitCode>>
worldVars == <<tz, config, env, startDate, endDate, remote, faults>>
teamVars == <<teamMembersCache, repoTeamMembers, teamCalls, builds>>
vars == <<worldVars, teamVars, durationVars, statsVars, memberVars, fetchVars, reportVars,
          pc, requests, error>>

Null == <<>>
Some(v) == <<v>>
Min2(a, b) == IF a < b THEN a ELSE b

(***************************************************************************)
(* Date arithmetic (JavaScript Date, local-time accessors)                 *)
(***************************************************************************)
HoursPerDay == 24

\* Index of the local calendar day holding instant t
LocalDay(t, z) == (t + z) \div HoursPerDay

\* Date.prototype.getDay(): 0 = Sunday .. 6 = Saturday, in local time
getDay(t, z) == (LocalDay(t, z) + 4) % 7

\* d.setDate(d.getDate() + 1); d.setHours(0, 0, 0, 0): next local midnight
nextMidnight(t, z) == (LocalDay(t, z) + 1) * HoursPerDay - z

\* Loop variants used to test the sensitivity of the duration properties:
\* the period is not clipped to end / Saturday is counted as a working day.
RECURSIVE workingHoursLoop_NoClip(_, _, _, _)
workingHoursLoop_NoClip(currentDate, e, acc, z) ==
    IF currentDate < e
    THEN LET dayOfWeek == getDay(currentDate, z)
             nextDay == nextMidnight(currentDate, z)
             periodHours == nextDay - currentDate
         IN workingHoursLoop_NoClip(nextDay, e,
                IF dayOfWeek # 0 /\ dayOfWeek # 6 THEN acc + periodHours ELSE acc,
                z)
    ELSE acc

RECURSIVE workingHoursLoop_CountSaturday(_, _, _, _)
workingHoursLoop_CountSaturday(currentDate, e, acc, z) ==
    IF currentDate < e
    THEN LET dayOfWeek == getDay(currentDate, z)
             nextDay == nextMidnight(currentDate, z)
             endOfPeriod == IF nextDay < e THEN nextDay ELSE e
             periodHours == endOfPeriod - currentDate
         IN workingHoursLoop_CountSaturday(nextDay, e,
                IF dayOfWeek # 0 THEN acc + periodHours ELSE acc,
                z)
    ELSE acc

\* The while loop of calculateWorkingHours: currentDate walks from start to
\* end one local day at a time; a weekday adds the hours from currentDate up
\* to the earlier of the next local midnight and end.
RECURSIVE workingHoursLoop(_, _, _, _)
workingHoursLoop(currentDate, e, acc, z) ==
    IF currentDate < e
    THEN LET dayOfWeek == getDay(currentDate, z)
             nextDay == nextMidnight(currentDate, z)
             endOfPeriod == IF nextDay < e THEN nextDay ELSE e
             periodHours == endOfPeriod - currentDate
         IN workingHoursLoop(nextDay, e,
                IF dayOfWeek # 0 /\ dayOfWeek # 6 THEN acc + periodHours ELSE acc,
                z)
    ELSE acc

\* Variant that measures a reversed interval instead of returning 0.
calculateWorkingHours_Swap(s, e, z) ==
    IF e < s THEN workingHoursLoop(e, s, 0, z) ELSE workingHoursLoop(s, e, 0, z)

calculateWorkingHours(s, e, z) ==
    IF e < s THEN 0 ELSE workingHoursLoop(s, e, 0, z)

\* Variant with a strict comparison.
isWithinOneWorkingDay_Strict(s, e, z) == calculateWorkingHours(s, e, z) < 24

isWithinOneWorkingDay(s, e, z) == calculateWorkingHours(s, e, z) <= 24

\* Variant without the adjustment for Sunday.
getWeekStart_NoSundayAdjust(date, z) ==
    (LocalDay(date, z) - getDay(date, z) + 1) * HoursPerDay - z

\* getWeekStart: diff = getDate() - day + (day === 0 ? -6 : 1); setDate(diff);
\* setHours(0, 0, 0, 0)
getWeekStart(date, z) ==
    LET day == getDay(date, z)
        diff == LocalDay(date, z) - day + (IF day = 0 THEN -6 ELSE 1)
    IN diff * HoursPerDay - z

(***************************************************************************)
(* Date strings                                                            *)
(***************************************************************************)
\* Date.prototype.toISOString(): the UTC calendar day and the UTC time of
\* day; the day is kept as its index since the epoch, the time in hours
toISOString(date) == [date |-> date \div HoursPerDay, time |-> date % HoursPerDay]

\* new Date(isoString)
DateFromISOString(str) == str.date * HoursPerDay + str.time

\* formatDate: date.toISOString().split('T')[0]
formatDate(date) == toISOString(date).date

\* Date.prototype.setHours(h, ...): the hour h of the same local day
setHours(date, h, z) == LocalDay(date, z) * HoursPerDay + h - z

\* parseArgs with --start-date and --end-date: the days given on the command
\* line, read as UTC midnight, become the first and the last hour of their
\* local day
parseArgs(startDay, endDay, z) ==
    [startDate |-> setHours(startDay * HoursPerDay, 0, z),
     endDate |-> setHours(endDay * HoursPerDay, 23, z)]

(***************************************************************************)
(* Duration calculator on its own: the inputs are drawn from the instants  *)
(* of MaxSpan hours starting on Thursday 1970-01-08 00:00 UTC, for each    *)
(* host offset, and the two functions are applied to them.                 *)
(***************************************************************************)
FirstInstant == 168
MaxSpan == 168
Instants == FirstInstant .. (FirstInstant + MaxSpan)
TZOffsets == {-5, 0, 2}

\* No GitHubAnalytics run takes place in this specification.
NoRun ==
    /\ config = [repositories |-> <<>>, excludeTeams |-> <<>>, excludeBots |-> <<>>]
    /\ env = [SLACK_WEBHOOK_URL |-> "", SLACK_POST_FULL_REPORT |-> ""]
    /\ startDate = 0
    /\ endDate = 0
    /\ remote = [members |-> {}, teams |-> <<>>, issues |-> <<>>, prs |-> <<>>]
    /\ faults = {}
    /\ orgMembers = {}
    /\ excludedUsers = {}
    /\ pc = "idle"
    /\ teamIdx = 0
    /\ repoIdx = 0
    /\ searchResults = <<>>
    /\ issueIdx = 0
    /\ issues = <<>>
    /\ prs = <<>>
    /\ batchStart = 0
    /\ tasks = <<>>
    /\ allData = <<>>
    /\ requests = {}
    /\ error = Null
    /\ console = <<>>
    /\ csv = Null
    /\ slack = Null
    /\ exitCode = Null

\* No duration is computed in this specification.
NoDurations ==
    /\ start = 0 /\ end = 0 /\ mid = 0
    /\ hours = Null /\ within = Null /\ split = Null
    /\ weekStart = Null /\ weekStartStr = Null

\* No team cache is built in this specification.
NoTeams ==
    /\ teamMembersCache = <<>>
    /\ repoTeamMembers = <<>>
    /\ teamCalls = <<>>
    /\ builds = <<>>

\* No statistics are computed in this specification.
NoStats ==
    /\ responseTimes = <<>>
    /\ stats = Null

\* No metrics are computed in this specification.
NoMetrics ==
    /\ data = <<>>
    /\ metrics = Null
    /\ weeklySummary = Null

InitHours ==
    /\ tz \in TZOffsets
    /\ start \in Instants
    /\ end \in Instants
    /\ hours = Null
    /\ within = Null
    /\ weekStart = Null
    /\ weekStartStr = Null
    /\ mid = start
    /\ split = Null
    /\ NoRun
    /\ NoTeams
    /\ NoStats
    /\ NoMetrics

\* const workingHours = calculateWorkingHours(start, end)
CalculateWorkingHours ==
    /\ hours = Null
    /\ hours' = Some(calculateWorkingHours(start, end, tz))
    /\ UNCHANGED <<start, end, within, weekStart, weekStartStr, mid, split>>
    /\ UNCHANGED <<worldVars, teamVars, statsVars, memberVars, fetchVars, reportVars,
                   pc, requests, error>>

\* isWithinOneWorkingDay(start, end)
IsWithinOneWorkingDay ==
    /\ hours # Null
    /\ within = Null
    /\ within' = Some(isWithinOneWorkingDay(start, end, tz))
    /\ UNCHANGED <<start, end, hours, weekStart, weekStartStr, mid, split>>
    /\ UNCHANGED <<worldVars, teamVars, statsVars, memberVars, fetchVars, reportVars,
                   pc, requests, error>>

\* getWeekStart(start)
GetWeekStart ==
    /\ pc = "idle"
    /\ weekStart = Null
    /\ weekStart' = Some(getWeekStart(start, tz))
    /\ UNCHANGED <<start, end, hours, within, weekStartStr, mid, split>>
    /\ UNCHANGED <<worldVars, teamVars, statsVars, memberVars, fetchVars, reportVars,
                   pc, requests, error>>

\* formatDate(item.weekStarting), as generateCSV and the weekly tables call it
FormatDate ==
    /\ weekStart # Null
    /\ weekStartStr = Null
    /\ weekStartStr' = Some(formatDate(weekStart[1]))
    /\ UNCHANGED <<start, end, hours, within, weekStart, mid, split>>
    /\ UNCHANGED <<worldVars, teamVars, statsVars, memberVars, fetchVars, reportVars,
                   pc, requests, error>>

NextHours ==
    CalculateWorkingHours \/ IsWithinOneWorkingDay \/ GetWeekStart \/ FormatDate

SpecHours == InitHours /\ [][NextHours]_vars

(***************************************************************************)
(* Properties of the duration calculator (checked under SpecHours).        *)
(* Calendar days are the host's local days, as getDay() reports them.      *)
(***************************************************************************)
IsWeekendDay(d) == (d + 4) % 7 \in {0, 6}
WeekendDaysSpanned(s, e) ==
    {d \in LocalDay(s, tz) .. LocalDay(e, tz) : IsWeekendDay(d)}

FridayFivePm == 8 * HoursPerDay + 17
MondayTenAm == 11 * HoursPerDay + 10
C10_ReversedIntervalIsZero ==
    /\ (hours # Null /\ end <= start) => hours = Some(0)
    /\ (within # Null /\ end <= start) => within = Some(TRUE)
    /\ hours # Null => hours[1] >= 0

C10_Witness ==
    /\ end < start
    /\ WeekendDaysSpanned(end, start) = {}
    /\ start - end > 24
    /\ hours = Some(0)
    /\ within = Some(TRUE)

\* C11: for any creation instant, getWeekStart returns a Monday at local
\* midnight that is at most the creation instant and later than the creation
\* instant minus 7 days; a Sunday maps to the Monday six days before it.
C11_WeekStartIsPrecedingMonday ==
    weekStart # Null =>
        LET w == weekStart[1]
        IN /\ getDay(w, tz) = 1
           /\ (w + tz) % HoursPerDay = 0
           /\ w <= start
           /\ w > start - 7 * HoursPerDay
           /\ getDay(start, tz) = 0 => LocalDay(w, tz) = LocalDay(start, tz) - 6

C11_Witness ==
    /\ weekStart # Null
    /\ tz # 0
    /\ getDay(start, tz) = 0
    /\ (start + tz) % HoursPerDay = 23
    /\ start - weekStart[1] = 6 * HoursPerDay + 23

\* Date.prototype.getDay() of a calendar date given as its day index
DayOfWeek(d) == (d + 4) % 7

\* C29: for any creation instant and any host offset, the week-start string
\* formatDate(getWeekStart(createdAt)) is the calendar date of a Monday, the
\* one that begins the week holding the creation instant in host time.
C29_WeekStartStringIsMonday ==
    weekStartStr # Null =>
        /\ DayOfWeek(weekStartStr[1]) = 1
        /\ weekStartStr[1] <= LocalDay(start, tz)
        /\ LocalDay(start, tz) <= weekStartStr[1] + 6

(***************************************************************************)
(* The remote service.  remote.members is the organization roster,         *)
(* remote.teams[slug] a team roster, remote.issues[repo] and               *)
(* remote.prs[repo] the results of the two date-scoped searches.  A search *)
(* result carries the fields the search API returns (number, title, user,  *)
(* created_at, html_url, state, pull_request) and, for the item-level      *)
(* calls, what the service holds for the item: its comments, review        *)
(* comments and reviews, oldest first, and its merge status.               *)
(* faults names the calls that fail: outcome "rate limit" is an error      *)
(* whose message includes 'rate limit', outcome "error" is any other.      *)
(***************************************************************************)
Range(seq) == {seq[i] : i \in 1 .. Len(seq)}

Outcome(api, target, number) ==
    IF \E f \in faults : f.api = api /\ f.target = target /\ f.number = number
    THEN (CHOOSE f \in faults :
              f.api = api /\ f.target = target /\ f.number = number).outcome
    ELSE "ok"

Request(api, target, number) == [api |-> api, target |-> target, number |-> number]

\* per_page of the three listings of findFirstOrgResponse
PER_PAGE == 10

FirstPage(stream, per_page) ==
    SubSeq(stream, 1, Min2(per_page, Len(stream)))

\* Variant of the listing that returns every comment, not the first page.
listComments_Unbounded(item, per_page) == item.comments

\* octokit.issues.listComments({per_page, direction: 'asc'}).data
listComments(item, per_page) == FirstPage(item.comments, per_page)

\* octokit.pulls.listReviewComments({per_page, direction: 'asc'}).data
listReviewComments(item, per_page) == FirstPage(item.reviewComments, per_page)

\* octokit.pulls.listReviews({per_page}).data
listReviews(item, per_page) == FirstPage(item.reviews, per_page)

\* octokit.pulls.get(...).data
pullsGet(item) == [merged_at |-> item.merged_at, merged_by |-> item.merged_by]

(***************************************************************************)
(* GitHubAnalytics: membership tests                                       *)
(***************************************************************************)
isOrgMember(username) == username \in orgMembers

\* Variant that only knows the listed bots.
isExcludedUser_BotsOnly(username) == username \in Range(config.excludeBots)

isExcludedUser(username) == username \in excludedUsers

(***************************************************************************)
(* GitHubAnalytics.findFirstOrgResponse                                    *)
(***************************************************************************)
\* for (const comment of listing.data) if (author && this.isOrgMember(author))
\*     allResponses.push({date: new Date(comment.created_at), author})
commentResponses(listing) ==
    LET Keep(c) == c.user # "" /\ isOrgMember(c.user)
        kept == SelectSeq(listing, Keep)
    IN [i \in 1 .. Len(kept) |->
            [date |-> kept[i].created_at, author |-> kept[i].user]]

\* for (const review of reviews.data)
\*     if (author && this.isOrgMember(author) && review.submitted_at) ...
reviewResponses(listing) ==
    LET Keep(r) == r.user # "" /\ isOrgMember(r.user) /\ r.submitted_at # Null
        kept == SelectSeq(listing, Keep)
    IN [i \in 1 .. Len(kept) |->
            [date |-> kept[i].submitted_at[1], author |-> kept[i].user]]

\* if (prDetails?.merged_at && prDetails?.merged_by?.login)
\*     if (this.isOrgMember(mergedBy)) allResponses.push(...)
mergeResponses(prDetails) ==
    IF prDetails # Null /\ prDetails[1].merged_at # Null /\ prDetails[1].merged_by # ""
    THEN IF isOrgMember(prDetails[1].merged_by)
         THEN <<[date |-> prDetails[1].merged_at[1], author |-> prDetails[1].merged_by]>>
         ELSE <<>>
    ELSE <<>>

\* Array.prototype.reduce without an initial value, from index i on
RECURSIVE reduceFrom(_, _, _)
reduceFrom(allResponses, i, min) ==
    IF i > Len(allResponses) THEN min
    ELSE LET curr == allResponses[i]
         IN reduceFrom(allResponses, i + 1, IF curr.date < min.date THEN curr ELSE min)

\* Variant that keeps the latest response.
earliestResponse_Latest(allResponses) ==
    CHOOSE r \in Range(allResponses) : \A q \in Range(allResponses) : q.date <= r.date

\* allResponses.reduce((min, curr) => curr.date < min.date ? curr : min)
earliestResponse(allResponses) == reduceFrom(allResponses, 2, allResponses[1])

\* The pull-request branch, once the three listings have resolved
firstOrgResponseOfPR(comments, reviewComments, reviews, prDetails) ==
    LET allResponses == commentResponses(comments) \o commentResponses(reviewComments)
                            \o reviewResponses(reviews) \o mergeResponses(prDetails)
    IN IF Len(allResponses) = 0 THEN Null
       ELSE LET earliest == earliestResponse(allResponses)
            IN Some([respondedAt |-> earliest.date, respondedBy |-> earliest.author])

\* The issue branch, once the listing has resolved: the first comment of the
\* page whose author is an organization member
firstOrgResponseOfIssue(comments) ==
    LET hits == {i \in 1 .. Len(comments) :
                     comments[i].user # "" /\ isOrgMember(comments[i].user)}
    IN IF hits = {} THEN Null
       ELSE LET first == CHOOSE i \in hits : \A j \in hits : i <= j
            IN Some([respondedAt |-> comments[first].created_at,
                     respondedBy |-> comments[first].user])

PRListings == {"issues.listComments", "pulls.listReviewComments", "pulls.listReviews"}

\* Variant that answers from the remote contents even when a listing failed.
findFirstOrgResponse_IgnoreFailure(repo, item, type, prDetails) ==
    IF type = "pr"
    THEN firstOrgResponseOfPR(listComments(item, PER_PAGE),
                              listReviewComments(item, PER_PAGE),
                              listReviews(item, PER_PAGE),
                              prDetails)
    ELSE firstOrgResponseOfIssue(listComments(item, PER_PAGE))

\* findFirstOrgResponse(repo, issueNumber, type, prDetails): a listing that
\* fails lands in the catch block, which logs and returns null.
findFirstOrgResponse(repo, item, type, prDetails) ==
    IF type = "pr"
    THEN IF \E api \in PRListings : Outcome(api, repo, item.number) # "ok"
         THEN Null
         ELSE firstOrgResponseOfPR(listComments(item, PER_PAGE),
                                   listReviewComments(item, PER_PAGE),
                                   listReviews(item, PER_PAGE),
                                   prDetails)
    ELSE IF Outcome("issues.listComments", repo, item.number) # "ok"
         THEN Null
         ELSE firstOrgResponseOfIssue(listComments(item, PER_PAGE))

\* The requests findFirstOrgResponse issues
lookupRequests(repo, item, type) ==
    IF type = "pr"
    THEN {Request(api, repo, item.number) : api \in PRListings}
    ELSE {Request("issues.listComments", repo, item.number)}

(***************************************************************************)
(* The record fetchIssues and processPullRequest assemble                  *)
(***************************************************************************)
\* Variant that maps a falsy duration to null (responseTimeHours || null).
IssueData_FalsyHours(repo, item, type, firstResponse) ==
    [repository |-> repo,
     number |-> item.number,
     title |-> item.title,
     createdAt |-> item.created_at,
     firstResponseAt |-> IF firstResponse # Null
                         THEN Some(firstResponse[1].respondedAt) ELSE Null,
     responseTimeHours |->
        IF firstResponse # Null
           /\ calculateWorkingHours(item.created_at, firstResponse[1].respondedAt, tz) # 0
        THEN Some(calculateWorkingHours(item.created_at, firstResponse[1].respondedAt, tz))
        ELSE Null,
     respondedBy |-> IF firstResponse # Null
                     THEN Some(firstResponse[1].respondedBy) ELSE Null,
     reportedBy |-> IF item.user # "" THEN Some(item.user) ELSE Null,
     respondedWithinOneDay |->
        IF firstResponse # Null
        THEN isWithinOneWorkingDay(item.created_at, firstResponse[1].respondedAt, tz)
        ELSE FALSE,
     weekStarting |-> getWeekStart(item.created_at, tz),
     url |-> item.html_url,
     type |-> type]

IssueData(repo, item, type, firstResponse) ==
    [repository |-> repo,
     number |-> item.number,
     title |-> item.title,
     createdAt |-> item.created_at,
     firstResponseAt |-> IF firstResponse # Null
                         THEN Some(firstResponse[1].respondedAt) ELSE Null,
     responseTimeHours |->
        IF firstResponse # Null
        THEN Some(calculateWorkingHours(item.created_at, firstResponse[1].respondedAt, tz))
        ELSE Null,
     respondedBy |-> IF firstResponse # Null
                     THEN Some(firstResponse[1].respondedBy) ELSE Null,
     reportedBy |-> IF item.user # "" THEN Some(item.user) ELSE Null,
     respondedWithinOneDay |->
        IF firstResponse # Null
        THEN isWithinOneWorkingDay(item.created_at, firstResponse[1].respondedAt, tz)
        ELSE FALSE,
     weekStarting |-> getWeekStart(item.created_at, tz),
     url |-> item.html_url,
     type |-> type]

(***************************************************************************)
(* Numbers.  A JavaScript number is an IEEE 754 double.  A number that     *)
(* results from a division is kept as the exact fraction its operands      *)
(* define, in lowest terms ([num, den] with den > 0), together with the    *)
(* double the program holds: mant, the 53 bits of the significand written  *)
(* as its leading 5 bits (a digit in 16 .. 31) and LowDigits digits in     *)
(* base DigitBase after them, and exp, the power of two of the first bit.  *)
(* Zero has the empty significand.  A division by zero gives NaN (0 / 0)   *)
(* or Infinity (x / 0), as in JavaScript.  The operands of the program     *)
(* are integers below 2^23, far from the subnormal and overflow ranges.    *)
(***************************************************************************)
RECURSIVE GCD(_, _)
GCD(a, b) == IF b = 0 THEN a ELSE GCD(b, a % b)

Abs(n) == IF n < 0 THEN -n ELSE n

\* The decimal fraction n / d in lowest terms
Rat(n, d) ==
    LET g == GCD(Abs(n), d)
    IN [num |-> n \div g, den |-> d \div g]

\* The significand of a double: 53 = 5 + LowDigits * 8 bits
DigitBase == 256
LowDigits == 6
LeadMin == 16
LeadMax == 31

\* Round to nearest, ties to even: the significand digits, followed by the
\* bit half and then a nonzero tail exactly when sticky, rounded to a
\* significand and its exponent
RoundToNearestEven(digits, exp, half, sticky) ==
    LET n == Len(digits)
        Full(i) == digits[i] = (IF i = 1 THEN LeadMax ELSE DigitBase - 1)
        up == half /\ (sticky \/ digits[n] % 2 = 1)
    IN IF ~up THEN [mant |-> digits, exp |-> exp]
       ELSE IF \A i \in 1 .. n : Full(i)
            THEN [mant |-> [i \in 1 .. n |-> IF i = 1 THEN LeadMin ELSE 0],
                  exp |-> exp + 1]
            ELSE LET last == CHOOSE i \in 1 .. n :
                                 ~Full(i) /\ \A j \in i + 1 .. n : Full(j)
                 IN [mant |-> [i \in 1 .. n |->
                                  IF i < last THEN digits[i]
                                  ELSE IF i = last THEN digits[i] + 1 ELSE 0],
                     exp |-> exp]

\* The e with 2^e <= a / b < 2^(e + 1), for integers a > 0 and b > 0
RECURSIVE Exponent(_, _)
Exponent(a, b) ==
    IF a >= 2 * b THEN Exponent(a, 2 * b) + 1
    ELSE IF a < b THEN Exponent(2 * a, b) - 1
    ELSE 0

\* Long division: the next n digits of r / b for 0 <= r < b, and the
\* remainder left after them
RECURSIVE DivideDigits(_, _, _)
DivideDigits(r, b, n) ==
    IF n = 0 THEN [digits |-> <<>>, rem |-> r]
    ELSE LET rest == DivideDigits((r * DigitBase) % b, b, n - 1)
         IN [digits |-> <<(r * DigitBase) \div b>> \o rest.digits, rem |-> rest.rem]

\* The double nearest to a / b for integers a > 0 and b > 0
DoubleOfQuotient(a, b) ==
    LET exp == Exponent(a, b)
        \* scaled / by = (a / b) * 2^(4 - exp), which is in 16 .. 31
        scaled == IF exp <= 4 THEN a * 2 ^ (4 - exp) ELSE a
        by == IF exp <= 4 THEN b ELSE b * 2 ^ (exp - 4)
        low == DivideDigits(scaled % by, by, LowDigits)
    IN RoundToNearestEven(<<scaled \div by>> \o low.digits, exp,
                          2 * low.rem >= by, (2 * low.rem) % by # 0)

\* The digits of k times the first i digits, plus carry, for an integer
\* k > 0, exactly: the first of them is as large as it needs to be
RECURSIVE MultiplyDigits(_, _, _, _)
MultiplyDigits(digits, k, i, carry) ==
    IF i = 1 THEN <<digits[1] * k + carry>>
    ELSE Append(MultiplyDigits(digits, k, i - 1, (digits[i] * k + carry) \div DigitBase),
                (digits[i] * k + carry) % DigitBase)

\* The number of bits the first digit has beyond its 5
RECURSIVE ExtraBits(_)
ExtraBits(lead) == IF lead <= LeadMax THEN 0 ELSE ExtraBits(lead \div 2) + 1

\* The double nearest to k times the double [mant, exp], 0 < k <= DigitBase
DoubleOfProduct(mant, exp, k) ==
    LET product == MultiplyDigits(mant, k, Len(mant), 0)
        s == ExtraBits(product[1])
        lost == product[Len(product)] % 2 ^ s
        shifted == [i \in 1 .. Len(product) |->
                       IF i = 1 THEN product[1] \div 2 ^ s
                       ELSE ((product[i - 1] % 2 ^ s) * DigitBase + product[i]) \div 2 ^ s]
    IN IF s = 0 THEN [mant |-> product, exp |-> exp]
       ELSE RoundToNearestEven(shifted, exp + s,
                               lost >= 2 ^ (s - 1), lost % 2 ^ (s - 1) # 0)

\* A number: the exact fraction n / d and the double that stands for it
Number(n, d, double) ==
    LET exact == Rat(n, d)
    IN [num |-> exact.num, den |-> exact.den, mant |-> double.mant, exp |-> double.exp]

NaN == [num |-> 0, den |-> 0, mant |-> <<>>, exp |-> 0]
Infinity == [num |-> 1, den |-> 0, mant |-> <<>>, exp |-> 0]
Zero == [num |-> 0, den |-> 1, mant |-> <<>>, exp |-> 0]

\* a / b for integers a >= 0 and b >= 0: the double nearest to the
\* quotient, found from the fraction in lowest terms
Quotient(a, b) ==
    IF b = 0 THEN (IF a = 0 THEN NaN ELSE Infinity)
    ELSE IF a = 0 THEN Zero
         ELSE LET exact == Rat(a, b)
              IN Number(a, b, DoubleOfQuotient(exact.num, exact.den))

\* The integer n >= 0 as a number
Num(n) == Quotient(n, 1)

\* x * k for a number x and an integer k > 0: the double nearest to the
\* product of the double x and k
Times(x, k) ==
    IF x.den = 0 \/ Len(x.mant) = 0 THEN x
    ELSE Number(x.num * k, x.den, DoubleOfProduct(x.mant, x.exp, k))

\* The number of binary digits of the integer n >= 0
RECURSIVE BitLength(_)
BitLength(n) == IF n = 0 THEN 0 ELSE BitLength(n \div 2) + 1

\* The width bits (at most 8) from bit pos upwards of the integer whose
\* digits are digits, bit 0 being the least significant; the first digit
\* may be DigitBase or more and then reaches into the places above it
Field(digits, pos, width) ==
    LET n == Len(digits)
        D(k) == IF k < n - 1 THEN digits[n - k]
                ELSE (digits[1] \div DigitBase ^ (k - (n - 1))) % DigitBase
    IN (D(pos \div 8) \div 2 ^ (pos % 8) + D(pos \div 8 + 1) * 2 ^ (8 - (pos % 8)))
           % 2 ^ width

\* The double nearest to the sum of the doubles [ma, ea] and [mb, eb], for
\* ea >= eb; a double more than 53 binary places below the other is absorbed
DoubleOfSum(ma, ea, mb, eb) ==
    LET d == ea - eb
        n == Len(ma) + d \div 8
        \* the sum is ValueOf(sum) * 2^(eb - 52)
        shifted == MultiplyDigits(ma, 2 ^ (d % 8), Len(ma), 0)
        A(i) == IF i <= Len(ma) THEN shifted[i] ELSE 0
        B(i) == IF i > n - Len(mb) THEN mb[i - (n - Len(mb))] ELSE 0
        sum == MultiplyDigits([i \in 1 .. n |-> A(i) + B(i)], 1, n, 0)
        s == 8 * (n - 1) + BitLength(sum[1]) - (8 * LowDigits + 5)
        D(k) == sum[n - k]
    IN IF d > 8 * LowDigits + 5 THEN [mant |-> ma, exp |-> ea]
       ELSE RoundToNearestEven(
                [j \in 1 .. Len(ma) |->
                    IF j = 1 THEN Field(sum, s + 8 * LowDigits, 5)
                    ELSE Field(sum, s + 8 * (Len(ma) - j), 8)],
                eb + s,
                s >= 1 /\ Field(sum, s - 1, 1) = 1,
                s >= 1 /\ \E k \in 0 .. (s - 1) \div 8 :
                             (IF k < (s - 1) \div 8 THEN D(k)
                              ELSE D(k) % 2 ^ ((s - 1) % 8)) # 0)

\* x + y for numbers x >= 0 and y >= 0; NaN + y is NaN and Infinity + y is
\* Infinity, and 0 + y is y
Plus(x, y) ==
    IF x.den = 0 \/ y.den = 0
    THEN (IF x = NaN \/ y = NaN THEN NaN ELSE Infinity)
    ELSE IF Len(x.mant) = 0 THEN y
    ELSE IF Len(y.mant) = 0 THEN x
    ELSE Number(x.num * y.den + y.num * x.den, x.den * y.den,
                IF x.exp >= y.exp THEN DoubleOfSum(x.mant, x.exp, y.mant, y.exp)
                ELSE DoubleOfSum(y.mant, y.exp, x.mant, x.exp))

\* Array index, counted from 0
At(array, i) == array[i + 1]

\* Array.prototype.sort((a, b) => key(a) - key(b)): ascending by key, stable
RECURSIVE arraySort(_, _)
arraySort(array, key) ==
    IF Len(array) <= 1 THEN array
    ELSE LET front == arraySort(SubSeq(array, 1, Len(array) - 1), key)
             x == array[Len(array)]
             p == Cardinality({i \in 1 .. Len(front) : key[front[i]] <= key[x]})
         IN SubSeq(front, 1, p) \o <<x>> \o SubSeq(front, p + 1, Len(front))

\* sorted.reduce((acc, val) => acc + val, 0)
RECURSIVE sumFrom(_, _, _)
sumFrom(array, i, acc) ==
    IF i > Len(array) THEN acc ELSE sumFrom(array, i + 1, acc + array[i])

(***************************************************************************)
(* calculateStats                                                          *)
(***************************************************************************)
\* Variant that takes the centre of the input as given, without sorting it.
calculateStats_Unsorted(times) ==
    IF Len(times) = 0
    THEN [min |-> Null, max |-> Null, mean |-> Null, median |-> Null]
    ELSE LET sorted == times
             length == Len(sorted)
         IN [min |-> Some(Num(At(sorted, 0))),
             max |-> Some(Num(At(sorted, length - 1))),
             mean |-> Some(Quotient(sumFrom(sorted, 1, 0), length)),
             median |-> Some(IF length % 2 = 0
                             THEN Quotient(At(sorted, length \div 2 - 1)
                                               + At(sorted, length \div 2), 2)
                             ELSE Num(At(sorted, length \div 2)))]

calculateStats(times) ==
    IF Len(times) = 0
    THEN [min |-> Null, max |-> Null, mean |-> Null, median |-> Null]
    ELSE LET sorted == arraySort(times, [x \in Range(times) |-> x])
             length == Len(sorted)
         IN [min |-> Some(Num(At(sorted, 0))),
             max |-> Some(Num(At(sorted, length - 1))),
             mean |-> Some(Quotient(sumFrom(sorted, 1, 0), length)),
             median |-> Some(IF length % 2 = 0
                             THEN Quotient(At(sorted, length \div 2 - 1)
                                               + At(sorted, length \div 2), 2)
                             ELSE Num(At(sorted, length \div 2)))]

(***************************************************************************)
(* calculateOverallMetrics, calculateWeeklySummary                         *)
(***************************************************************************)
\* Variant without the guard against an empty partition.
percentageOf_Unguarded(count, total) == Times(Quotient(count, total), 100)

\* total > 0 ? (count / total) * 100 : 0
percentageOf(count, total) ==
    IF total > 0 THEN Times(Quotient(count, total), 100) ELSE Num(0)

\* data.filter(d => d.responseTimeHours !== null).map(d => d.responseTimeHours)
RECURSIVE responseTimesOf(_, _)
responseTimesOf(d, i) ==
    IF i > Len(d) THEN <<>>
    ELSE (IF d[i].responseTimeHours # Null THEN <<d[i].responseTimeHours[1]>> ELSE <<>>)
             \o responseTimesOf(d, i + 1)

calculateOverallMetrics(d) ==
    LET IsIssue(r) == r.type = "issue"
        IsPR(r) == r.type = "pr"
        Responded(r) == r.firstResponseAt # Null
        WithinOneDay(r) == r.respondedWithinOneDay
        issuesOfData == SelectSeq(d, IsIssue)
        prsOfData == SelectSeq(d, IsPR)
        issuesResponded == Len(SelectSeq(issuesOfData, Responded))
        prsResponded == Len(SelectSeq(prsOfData, Responded))
        issuesWithinOneDay == Len(SelectSeq(issuesOfData, WithinOneDay))
        prsWithinOneDay == Len(SelectSeq(prsOfData, WithinOneDay))
        statsOfData == calculateStats(responseTimesOf(d, 1))
    IN [totalIssues |-> Len(issuesOfData),
        totalPRs |-> Len(prsOfData),
        issuesResponded |-> issuesResponded,
        prsResponded |-> prsResponded,
        issuesWithinOneDay |-> issuesWithinOneDay,
        prsWithinOneDay |-> prsWithinOneDay,
        issueResponseRate |-> percentageOf(issuesResponded, Len(issuesOfData)),
        prResponseRate |-> percentageOf(prsResponded, Len(prsOfData)),
        issueOneDayPercentage |-> percentageOf(issuesWithinOneDay, Len(issuesOfData)),
        prOneDayPercentage |-> percentageOf(prsWithinOneDay, Len(prsOfData)),
        minResponseTimeHours |-> statsOfData.min,
        maxResponseTimeHours |-> statsOfData.max,
        meanResponseTimeHours |-> statsOfData.mean,
        medianResponseTimeHours |-> statsOfData.median]

\* The loop of calculateWeeklySummary over data[i], data[i+1], ...: weeklyMap
\* is the Map, as the sequence of its entries in insertion order
RECURSIVE weeklyMapFrom(_, _, _)
weeklyMapFrom(d, i, weeklyMap) ==
    IF i > Len(d) THEN weeklyMap
    ELSE LET item == d[i]
             weekKey == toISOString(item.weekStarting)
             has == \E k \in 1 .. Len(weeklyMap) : weeklyMap[k].weekKey = weekKey
             withKey == IF has THEN weeklyMap
                        ELSE Append(weeklyMap,
                                 [weekKey |-> weekKey, total |-> 0, withinOneDay |-> 0])
             k == CHOOSE j \in 1 .. Len(withKey) : withKey[j].weekKey = weekKey
         IN weeklyMapFrom(d, i + 1,
                [withKey EXCEPT ![k].total = @ + 1,
                                ![k].withinOneDay =
                                    IF item.respondedWithinOneDay THEN @ + 1 ELSE @])

\* Variant that leaves the summaries in the order the weeks were first met.
sortSummaries_InsertionOrder(summaries) == summaries

\* .sort((a, b) => a.weekStarting.getTime() - b.weekStarting.getTime())
sortSummaries(summaries) ==
    arraySort(summaries, [s \in Range(summaries) |-> s.weekStarting])

calculateWeeklySummary(d) ==
    LET weeklyMap == weeklyMapFrom(d, 1, <<>>)
    IN sortSummaries(
           [k \in 1 .. Len(weeklyMap) |->
               [weekStarting |-> DateFromISOString(weeklyMap[k].weekKey),
                totalIssues |-> weeklyMap[k].total,
                respondedWithinOneDay |-> weeklyMap[k].withinOneDay,
                percentage |-> percentageOf(weeklyMap[k].withinOneDay,
                                            weeklyMap[k].total)]])

(***************************************************************************)
(* main(): checkRateLimit, fetchOrgMembers, buildExcludeList, fetchAllData *)
(***************************************************************************)
CurrentRepo == config.repositories[repoIdx]

\* await analytics.checkRateLimit(): a failure is caught and logged
CheckRateLimit ==
    /\ pc = "checkRateLimit"
    /\ requests' = requests \cup {Request("rateLimit.get", "", 0)}
    /\ pc' = "fetchOrgMembers"
    /\ UNCHANGED <<worldVars, teamVars, durationVars, statsVars, reportVars, memberVars, fetchVars, error>>

\* Variant that falls back to an empty member set when the fetch fails.
FetchOrgMembers_EmptyFallback ==
    /\ pc = "fetchOrgMembers"
    /\ requests' = requests \cup {Request("orgs.listMembers", "", 0)}
    /\ orgMembers' = IF Outcome("orgs.listMembers", "", 0) = "ok"
                     THEN remote.members ELSE {}
    /\ pc' = "buildExcludeList"
    /\ UNCHANGED <<worldVars, teamVars, durationVars, statsVars, reportVars, excludedUsers,
                   fetchVars, error>>

\* fetchOrgMembers: a failure is rethrown and ends main() in its catch block
FetchOrgMembers ==
    /\ pc = "fetchOrgMembers"
    /\ requests' = requests \cup {Request("orgs.listMembers", "", 0)}
    /\ LET out == Outcome("orgs.listMembers", "", 0)
       IN IF out = "ok"
          THEN /\ orgMembers' = remote.members
               /\ pc' = "buildExcludeList"
               /\ error' = error
          ELSE /\ orgMembers' = orgMembers
               /\ pc' = "failed"
               /\ error' = Some(out)
    /\ UNCHANGED <<worldVars, teamVars, durationVars, statsVars, reportVars, excludedUsers, fetchVars>>

\* Variant whose caller does not wait for the team rosters: the collection
\* starts as soon as the bots are added.
BuildExcludeList_NotAwaited ==
    /\ pc = "buildExcludeList"
    /\ excludedUsers' = excludedUsers \cup Range(config.excludeBots)
    /\ pc' = "fetchIssues" /\ repoIdx' = 1 /\ teamIdx' = teamIdx
    /\ UNCHANGED <<worldVars, teamVars, durationVars, statsVars, reportVars, orgMembers, searchResults, issueIdx,
                   issues, prs, batchStart, tasks, allData, requests, error>>

\* buildExcludeList up to its first await: the bots are added, and the
\* function returns when no team is configured
BuildExcludeList ==
    /\ pc = "buildExcludeList"
    /\ excludedUsers' = excludedUsers \cup Range(config.excludeBots)
    /\ IF Len(config.excludeTeams) = 0
       THEN pc' = "fetchIssues" /\ repoIdx' = 1 /\ teamIdx' = teamIdx
       ELSE pc' = "teams" /\ teamIdx' = 1 /\ repoIdx' = repoIdx
    /\ UNCHANGED <<worldVars, teamVars, durationVars, statsVars, reportVars, orgMembers, searchResults, issueIdx,
                   issues, prs, batchStart, tasks, allData, requests, error>>

\* Variant whose team loop ends at the first roster fetch that fails.
FetchTeam_StopAtFailure ==
    /\ pc = "teams"
    /\ LET teamSlug == config.excludeTeams[teamIdx]
           ok == Outcome("teams.listMembersInOrg", teamSlug, 0) = "ok"
       IN /\ requests' = requests \cup {Request("teams.listMembersInOrg", teamSlug, 0)}
          /\ excludedUsers' = IF ok THEN excludedUsers \cup remote.teams[teamSlug]
                              ELSE excludedUsers
          /\ IF teamIdx = Len(config.excludeTeams) \/ ~ok
             THEN pc' = "fetchIssues" /\ repoIdx' = 1 /\ teamIdx' = teamIdx
             ELSE pc' = pc /\ teamIdx' = teamIdx + 1 /\ repoIdx' = repoIdx
    /\ UNCHANGED <<worldVars, teamVars, durationVars, statsVars, reportVars, orgMembers,
                   searchResults, issueIdx, issues, prs, batchStart, tasks, allData,
                   error>>

\* One iteration of the team loop of buildExcludeList: a failed roster fetch
\* is logged and the loop goes on
FetchTeam ==
    /\ pc = "teams"
    /\ LET teamSlug == config.excludeTeams[teamIdx]
       IN /\ requests' = requests \cup {Request("teams.listMembersInOrg", teamSlug, 0)}
          /\ excludedUsers' =
                IF Outcome("teams.listMembersInOrg", teamSlug, 0) = "ok"
                THEN excludedUsers \cup remote.teams[teamSlug]
                ELSE excludedUsers
    /\ IF teamIdx = Len(config.excludeTeams)
       THEN pc' = "fetchIssues" /\ repoIdx' = 1 /\ teamIdx' = teamIdx
       ELSE pc' = pc /\ teamIdx' = teamIdx + 1 /\ repoIdx' = repoIdx
    /\ UNCHANGED <<worldVars, teamVars, durationVars, statsVars, reportVars, orgMembers, searchResults, issueIdx,
                   issues, prs, batchStart, tasks, allData, error>>

\* fetchIssues: the search; a failure is rethrown, after logRateLimitError
\* when its message includes 'rate limit'
SearchIssues ==
    /\ pc = "fetchIssues"
    /\ requests' = requests \cup {Request("search.issues", CurrentRepo, 0)}
    /\ LET out == Outcome("search.issues", CurrentRepo, 0)
       IN IF out = "ok"
          THEN /\ searchResults' = remote.issues[CurrentRepo]
               /\ issues' = <<>>
               /\ issueIdx' = 1
               /\ pc' = "issueLoop"
               /\ error' = error
          ELSE /\ UNCHANGED <<searchResults, issues, issueIdx>>
               /\ pc' = IF out = "rate limit" THEN "logRateLimit" ELSE "failed"
               /\ error' = Some(out)
    /\ UNCHANGED <<worldVars, teamVars, durationVars, statsVars, reportVars, memberVars, teamIdx, repoIdx, prs,
                   batchStart, tasks, allData>>

\* fetchIssues: one iteration of the loop over the search results
ProcessIssue ==
    /\ pc = "issueLoop"
    /\ issueIdx <= Len(searchResults)
    /\ LET issue == searchResults[issueIdx]
       IN IF issue.pull_request \/ isExcludedUser(issue.user)
          THEN UNCHANGED <<issues, requests>>
          ELSE /\ requests' = requests \cup lookupRequests(CurrentRepo, issue, "issue")
               /\ issues' = Append(issues,
                     IssueData(CurrentRepo, issue, "issue",
                               findFirstOrgResponse(CurrentRepo, issue, "issue", Null)))
    /\ issueIdx' = issueIdx + 1
    /\ UNCHANGED <<worldVars, teamVars, durationVars, statsVars, reportVars, memberVars, teamIdx, repoIdx,
                   searchResults, prs, batchStart, tasks, allData, pc, error>>

\* fetchIssues returns its records and fetchAllData calls fetchPullRequests
IssuesReturn ==
    /\ pc = "issueLoop"
    /\ issueIdx > Len(searchResults)
    /\ pc' = "fetchPullRequests"
    /\ UNCHANGED <<worldVars, teamVars, durationVars, statsVars, reportVars, memberVars, fetchVars, requests, error>>

\* Variant that takes a search failing with an error other than a rate-limit
\* error for a search without results.
SearchPRs_EmptyOnError ==
    /\ pc = "fetchPullRequests"
    /\ requests' = requests \cup {Request("search.prs", CurrentRepo, 0)}
    /\ LET out == Outcome("search.prs", CurrentRepo, 0)
           IsPR(item) == item.pull_request
       IN IF out # "rate limit"
          THEN /\ searchResults' = IF out = "ok"
                                   THEN SelectSeq(remote.prs[CurrentRepo], IsPR) ELSE <<>>
               /\ prs' = <<>>
               /\ batchStart' = 0
               /\ pc' = "batchStart"
               /\ error' = error
          ELSE /\ UNCHANGED <<searchResults, prs, batchStart>>
               /\ pc' = "logRateLimit"
               /\ error' = Some(out)
    /\ UNCHANGED <<worldVars, teamVars, durationVars, statsVars, reportVars, memberVars, teamIdx, repoIdx, issueIdx,
                   issues, tasks, allData>>

\* fetchPullRequests: the search and the filter to pull requests
SearchPRs ==
    /\ pc = "fetchPullRequests"
    /\ requests' = requests \cup {Request("search.prs", CurrentRepo, 0)}
    /\ LET out == Outcome("search.prs", CurrentRepo, 0)
           IsPR(item) == item.pull_request
       IN IF out = "ok"
          THEN /\ searchResults' = SelectSeq(remote.prs[CurrentRepo], IsPR)
               /\ prs' = <<>>
               /\ batchStart' = 0
               /\ pc' = "batchStart"
               /\ error' = error
          ELSE /\ UNCHANGED <<searchResults, prs, batchStart>>
               /\ pc' = IF out = "rate limit" THEN "logRateLimit" ELSE "failed"
               /\ error' = Some(out)
    /\ UNCHANGED <<worldVars, teamVars, durationVars, statsVars, reportVars, memberVars, teamIdx, repoIdx, issueIdx,
                   issues, tasks, allData>>

BATCH_SIZE == 10

\* Variant that fetches the details of every pull request, open or closed.
startTask_AlwaysDetail(repo, pr) ==
    IF isExcludedUser(pr.user)
    THEN [pr |-> pr, st |-> "resolved", prDetails |-> Null, result |-> Null]
    ELSE [pr |-> pr, st |-> "detail", prDetails |-> Null, result |-> Null]

\* processPullRequest up to its first await: an excluded author resolves the
\* call with null, a closed pull request requests its details, an open one
\* goes straight to findFirstOrgResponse
startTask(repo, pr) ==
    IF isExcludedUser(pr.user)
    THEN [pr |-> pr, st |-> "resolved", prDetails |-> Null, result |-> Null]
    ELSE IF pr.state = "closed"
    THEN [pr |-> pr, st |-> "detail", prDetails |-> Null, result |-> Null]
    ELSE [pr |-> pr, st |-> "lookup", prDetails |-> Null, result |-> Null]

startRequests(repo, pr) ==
    IF isExcludedUser(pr.user) THEN {}
    ELSE IF pr.state = "closed" THEN {Request("pulls.get", repo, pr.number)}
    ELSE lookupRequests(repo, pr, "pr")

\* Variant that starts the calls of every remaining pull request at once.
StartBatch_Unbatched ==
    /\ pc = "batchStart"
    /\ batchStart < Len(searchResults)
    /\ LET batch == SubSeq(searchResults, batchStart + 1, Len(searchResults))
       IN /\ tasks' = [k \in 1 .. Len(batch) |-> startTask(CurrentRepo, batch[k])]
          /\ requests' = requests \cup
                UNION {startRequests(CurrentRepo, batch[k]) : k \in 1 .. Len(batch)}
    /\ pc' = "batch"
    /\ UNCHANGED <<worldVars, teamVars, durationVars, statsVars, reportVars, memberVars, teamIdx, repoIdx,
                   searchResults, issueIdx, issues, prs, batchStart, allData, error>>

\* fetchPullRequests: batch.map(pr => this.processPullRequest(repo, pr))
StartBatch ==
    /\ pc = "batchStart"
    /\ batchStart < Len(searchResults)
    /\ LET batch == SubSeq(searchResults, batchStart + 1,
                           Min2(batchStart + BATCH_SIZE, Len(searchResults)))
       IN /\ tasks' = [k \in 1 .. Len(batch) |-> startTask(CurrentRepo, batch[k])]
          /\ requests' = requests \cup
                UNION {startRequests(CurrentRepo, batch[k]) : k \in 1 .. Len(batch)}
    /\ pc' = "batch"
    /\ UNCHANGED <<worldVars, teamVars, durationVars, statsVars, reportVars, memberVars, teamIdx, repoIdx,
                   searchResults, issueIdx, issues, prs, batchStart, allData, error>>

\* processPullRequest: octokit.pulls.get has answered.  A rate-limit error is
\* rethrown and rejects the batch; any other error is logged and the call
\* resolves with null.
DetailResponse(k) ==
    /\ pc \in {"batch", "logRateLimit"}
    /\ k \in 1 .. Len(tasks)
    /\ tasks[k].st = "detail"
    /\ LET pr == tasks[k].pr
           out == Outcome("pulls.get", CurrentRepo, pr.number)
       IN CASE out = "ok" ->
                 /\ tasks' = [tasks EXCEPT ![k].st = "lookup",
                                           ![k].prDetails = Some(pullsGet(pr))]
                 /\ requests' = requests \cup lookupRequests(CurrentRepo, pr, "pr")
                 /\ UNCHANGED <<pc, error>>
            [] out = "error" ->
                 /\ tasks' = [tasks EXCEPT ![k].st = "resolved"]
                 /\ UNCHANGED <<requests, pc, error>>
            [] out = "rate limit" ->
                 /\ tasks' = [tasks EXCEPT ![k].st = "rejected"]
                 /\ pc' = "logRateLimit"
                 /\ error' = Some(out)
                 /\ UNCHANGED requests
    /\ UNCHANGED <<worldVars, teamVars, durationVars, statsVars, reportVars, memberVars, teamIdx, repoIdx,
                   searchResults, issueIdx, issues, prs, batchStart, allData>>

\* processPullRequest: findFirstOrgResponse has returned and the record is
\* assembled
LookupResponse(k) ==
    /\ pc \in {"batch", "logRateLimit"}
    /\ k \in 1 .. Len(tasks)
    /\ tasks[k].st = "lookup"
    /\ LET pr == tasks[k].pr
           firstResponse == findFirstOrgResponse(CurrentRepo, pr, "pr", tasks[k].prDetails)
       IN tasks' = [tasks EXCEPT ![k].st = "resolved",
                                 ![k].result = Some(IssueData(CurrentRepo, pr, "pr",
                                                              firstResponse))]
    /\ UNCHANGED <<worldVars, teamVars, durationVars, statsVars, reportVars, memberVars, teamIdx, repoIdx,
                   searchResults, issueIdx, issues, prs, batchStart, allData,
                   pc, requests, error>>

\* results.filter(pr => pr !== null)
RECURSIVE nonNullResults(_, _)
nonNullResults(ts, k) ==
    IF k > Len(ts) THEN <<>>
    ELSE (IF ts[k].result # Null THEN <<ts[k].result[1]>> ELSE <<>>)
             \o nonNullResults(ts, k + 1)

\* Variant that waits for every call of the batch to settle and carries on
\* with the fulfilled ones (Promise.allSettled in place of Promise.all).
BatchDone_AllSettled ==
    /\ pc \in {"batch", "logRateLimit"}
    /\ Len(tasks) > 0
    /\ \A k \in 1 .. Len(tasks) : tasks[k].st \in {"resolved", "rejected"}
    /\ prs' = prs \o nonNullResults(tasks, 1)
    /\ batchStart' = batchStart + BATCH_SIZE
    /\ tasks' = <<>>
    /\ pc' = "batchStart"
    /\ UNCHANGED <<worldVars, teamVars, durationVars, statsVars, reportVars, memberVars, teamIdx, repoIdx,
                   searchResults, issueIdx, issues, allData, requests, error>>

\* Variant that takes the results as soon as one call of the batch has
\* resolved (Promise.race in place of Promise.all).
BatchDone_Race ==
    /\ pc = "batch"
    /\ \E k \in 1 .. Len(tasks) : tasks[k].st = "resolved"
    /\ prs' = prs \o nonNullResults(tasks, 1)
    /\ batchStart' = batchStart + BATCH_SIZE
    /\ tasks' = <<>>
    /\ pc' = "batchStart"
    /\ UNCHANGED <<worldVars, teamVars, durationVars, statsVars, reportVars, memberVars, teamIdx, repoIdx,
                   searchResults, issueIdx, issues, allData, requests, error>>

\* fetchPullRequests: Promise.all has resolved; the records of the batch are
\* appended and the loop moves to the next batch
BatchDone ==
    /\ pc = "batch"
    /\ \A k \in 1 .. Len(tasks) : tasks[k].st = "resolved"
    /\ prs' = prs \o nonNullResults(tasks, 1)
    /\ batchStart' = batchStart + BATCH_SIZE
    /\ tasks' = <<>>
    /\ pc' = "batchStart"
    /\ UNCHANGED <<worldVars, teamVars, durationVars, statsVars, reportVars, memberVars, teamIdx, repoIdx,
                   searchResults, issueIdx, issues, allData, requests, error>>

\* Variant that appends a repository's pull-request records before its issue
\* records.
PRsReturn_PRsFirst ==
    /\ pc = "batchStart"
    /\ batchStart >= Len(searchResults)
    /\ allData' = allData \o prs \o issues
    /\ IF repoIdx < Len(config.repositories)
       THEN pc' = "fetchIssues" /\ repoIdx' = repoIdx + 1
       ELSE pc' = "fetched" /\ repoIdx' = repoIdx
    /\ UNCHANGED <<worldVars, teamVars, durationVars, statsVars, reportVars, memberVars, teamIdx,
                   searchResults, issueIdx, issues, prs, batchStart, tasks, requests, error>>

\* fetchPullRequests returns; fetchAllData appends the repository's records
\* and goes on to the next repository, or returns
PRsReturn ==
    /\ pc = "batchStart"
    /\ batchStart >= Len(searchResults)
    /\ allData' = allData \o issues \o prs
    /\ IF repoIdx < Len(config.repositories)
       THEN pc' = "fetchIssues" /\ repoIdx' = repoIdx + 1
       ELSE pc' = "fetched" /\ repoIdx' = repoIdx
    /\ UNCHANGED <<worldVars, teamVars, durationVars, statsVars, reportVars, memberVars, teamIdx, searchResults,
                   issueIdx, issues, prs, batchStart, tasks, requests, error>>

\* The catch block of fetchIssues / fetchPullRequests after a rate-limit
\* error: logRateLimitError has probed the quota, the error is rethrown and
\* main() exits with status 1
LogRateLimitError ==
    /\ pc = "logRateLimit"
    /\ requests' = requests \cup {Request("rateLimit.get", "", 0)}
    /\ pc' = "failed"
    /\ UNCHANGED <<worldVars, teamVars, durationVars, statsVars, reportVars, memberVars, fetchVars, error>>

(***************************************************************************)
(* main() after fetchAllData: the report, the CSV file, the notification   *)
(***************************************************************************)
Log(text) == [stream |-> "stdout", text |-> text]
LogError(text) == [stream |-> "stderr", text |-> text]

\* The integer whose digits in base DigitBase are digits; the first digit
\* may exceed the base
RECURSIVE ValueOf(_)
ValueOf(digits) ==
    IF Len(digits) = 1 THEN digits[1]
    ELSE ValueOf(SubSeq(digits, 1, Len(digits) - 1)) * DigitBase + digits[Len(digits)]

\* The integer part of ValueOf(digits) / 2^t for t >= 0, a value below 2^23
ShiftRight(digits, t) ==
    LET q == t \div 8
        s == t % 8
    IN IF q >= Len(digits) - 1
       THEN (IF t - 8 * (Len(digits) - 1) > 30 THEN 0
             ELSE digits[1] \div 2 ^ (t - 8 * (Len(digits) - 1)))
       ELSE ValueOf(SubSeq(digits, 1, Len(digits) - q)) \div 2 ^ s

\* Number.prototype.toFixed(digits) for digits = 1, 2: n / 10^digits for the
\* integer n nearest to the double times 10^digits, the larger n of two
\* equally near; NaN and Infinity print as themselves
toFixed(x, digits) ==
    LET scale == IF digits = 1 THEN 10 ELSE 100
    IN IF x.den = 0 THEN x
       ELSE IF Len(x.mant) = 0 THEN Rat(0, scale)
       ELSE LET scaled == MultiplyDigits(x.mant, scale, Len(x.mant), 0)
                \* the double times scale is ValueOf(scaled) / 2^t
                t == 8 * LowDigits + 4 - x.exp
            IN Rat(ShiftRight(scaled, t) + (ShiftRight(scaled, t - 1) % 2), scale)

\* generateCSV: one row per record; Null stands for the literal N/A
generateCSV(d) ==
    [k \in 1 .. Len(d) |->
        [Repository |-> d[k].repository,
         Type |-> IF d[k].type = "issue" THEN "ISSUE" ELSE "PR",
         Number |-> d[k].number,
         Title |-> d[k].title,
         CreatedAt |-> toISOString(d[k].createdAt),
         FirstResponseAt |-> IF d[k].firstResponseAt # Null
                             THEN Some(toISOString(d[k].firstResponseAt[1])) ELSE Null,
         ResponseTimeHours |-> IF d[k].responseTimeHours # Null
                               THEN Some(toFixed(Num(d[k].responseTimeHours[1]), 2))
                               ELSE Null,
         RespondedBy |-> d[k].respondedBy,
         RespondedWithinOneDay |-> IF d[k].respondedWithinOneDay THEN "Yes" ELSE "No",
         WeekStarting |-> formatDate(d[k].weekStarting),
         URL |-> d[k].url]]

\* formatWeeklySummaryForSlack: one line per week
formatWeeklySummaryForSlack(summaries) ==
    [k \in 1 .. Len(summaries) |->
        [weekStr |-> formatDate(summaries[k].weekStarting),
         totalStr |-> summaries[k].totalIssues,
         respondedStr |-> summaries[k].respondedWithinOneDay,
         percentageStr |-> toFixed(summaries[k].percentage, 1)]]

\* formatOverallMetricsForSlack: the counts and the rates to one decimal,
\* followed, when there is a mean response time, by the response time
\* statistics to two decimals
formatOverallMetricsForSlack(m) ==
    [totalIssues |-> m.totalIssues,
     issuesResponded |-> m.issuesResponded,
     issueResponseRate |-> toFixed(m.issueResponseRate, 1),
     issuesWithinOneDay |-> m.issuesWithinOneDay,
     issueOneDayPercentage |-> toFixed(m.issueOneDayPercentage, 1),
     totalPRs |-> m.totalPRs,
     prsResponded |-> m.prsResponded,
     prResponseRate |-> toFixed(m.prResponseRate, 1),
     prsWithinOneDay |-> m.prsWithinOneDay,
     prOneDayPercentage |-> toFixed(m.prOneDayPercentage, 1),
     statistics |-> IF m.meanResponseTimeHours # Null
                    THEN Some([minimum |-> toFixed(m.minResponseTimeHours[1], 2),
                               maximum |-> toFixed(m.maxResponseTimeHours[1], 2),
                               mean |-> toFixed(m.meanResponseTimeHours[1], 2),
                               median |-> toFixed(m.medianResponseTimeHours[1], 2)])
                    ELSE Null]

\* The message sent: postWeeklySummaryToSlack sends the weekly summary,
\* postFullReportToSlack the date range, the overall metrics and the weekly
\* summary
slackMessage(postFullReport, m, summaries, from, to) ==
    [dateRange |-> IF postFullReport
                   THEN Some([from |-> formatDate(from), to |-> formatDate(to)])
                   ELSE Null,
     metricsText |-> IF postFullReport THEN Some(formatOverallMetricsForSlack(m)) ELSE Null,
     summaryText |-> formatWeeklySummaryForSlack(summaries)]

\* main() resumes with the records of fetchAllData: without any record it
\* exits with status 0; otherwise it computes the metrics, displays the
\* console report and starts writing the CSV file
Report ==
    /\ pc = "fetched"
    /\ data' = allData
    /\ IF Len(allData) = 0
       THEN /\ console' = Append(console, Log("No issues or pull requests found"))
            /\ exitCode' = Some(0)
            /\ pc' = "exited"
            /\ UNCHANGED <<metrics, weeklySummary>>
       ELSE /\ metrics' = Some(calculateOverallMetrics(allData))
            /\ weeklySummary' = Some(calculateWeeklySummary(allData))
            /\ console' = console \o <<Log("Total items analyzed"), Log("report")>>
            /\ pc' = "saveCSV"
            /\ UNCHANGED exitCode
    /\ UNCHANGED <<worldVars, teamVars, durationVars, statsVars, memberVars, fetchVars,
                   csv, slack, requests, error>>

\* saveCSV: Bun.write has answered.  A failure ends main() in its catch
\* block; otherwise the summary footer is displayed and, with a webhook URL
\* in the environment, the report is posted to Slack
SaveCSV ==
    /\ pc = "saveCSV"
    /\ LET out == Outcome("Bun.write", "", 0)
       IN IF out = "ok"
          THEN /\ csv' = Some(generateCSV(data))
               /\ IF env.SLACK_WEBHOOK_URL # ""
                  THEN /\ console' = console \o <<Log("CSV report saved"),
                                                  Log("Posting report to Slack")>>
                       /\ requests' = requests \cup {Request("slack.webhook", "", 0)}
                       /\ pc' = "postToSlack"
                  ELSE /\ console' = Append(console, Log("CSV report saved"))
                       /\ requests' = requests
                       /\ pc' = "finalCheckRateLimit"
               /\ error' = error
          ELSE /\ UNCHANGED <<csv, console, requests>>
               /\ error' = Some(out)
               /\ pc' = "failed"
    /\ UNCHANGED <<worldVars, teamVars, durationVars, statsVars, memberVars, fetchVars,
                   data, metrics, weeklySummary, slack, exitCode>>

\* Variant without the inner try: a delivery failure reaches the catch block
\* of main().
PostToSlack_Fatal ==
    /\ pc = "postToSlack"
    /\ LET out == Outcome("slack.webhook", "", 0)
       IN IF out = "ok"
          THEN /\ slack' = Some(slackMessage(env.SLACK_POST_FULL_REPORT = "true",
                                             metrics[1], weeklySummary[1],
                                             startDate, endDate))
               /\ console' = Append(console, Log("Successfully posted to Slack"))
               /\ pc' = "finalCheckRateLimit"
               /\ error' = error
          ELSE /\ UNCHANGED <<slack, console>>
               /\ pc' = "failed"
               /\ error' = Some(out)
    /\ UNCHANGED <<worldVars, teamVars, durationVars, statsVars, memberVars, fetchVars,
                   data, metrics, weeklySummary, csv, exitCode, requests>>

\* postToSlack: the webhook has answered.  A failure (fetch throws, or the
\* response is not ok) is caught by the inner try of main() and logged
PostToSlack ==
    /\ pc = "postToSlack"
    /\ IF Outcome("slack.webhook", "", 0) = "ok"
       THEN /\ slack' = Some(slackMessage(env.SLACK_POST_FULL_REPORT = "true",
                                          metrics[1], weeklySummary[1],
                                          startDate, endDate))
            /\ console' = Append(console, Log("Successfully posted to Slack"))
       ELSE /\ slack' = slack
            /\ console' = Append(console, LogError("Failed to post to Slack"))
    /\ pc' = "finalCheckRateLimit"
    /\ UNCHANGED <<worldVars, teamVars, durationVars, statsVars, memberVars, fetchVars,
                   data, metrics, weeklySummary, csv, exitCode, requests, error>>

\* await analytics.checkRateLimit() after completion; main() returns and the
\* process ends with status 0
FinalCheckRateLimit ==
    /\ pc = "finalCheckRateLimit"
    /\ requests' = requests \cup {Request("rateLimit.get", "", 0)}
    /\ exitCode' = Some(0)
    /\ pc' = "exited"
    /\ UNCHANGED <<worldVars, teamVars, durationVars, statsVars, memberVars, fetchVars,
                   data, metrics, weeklySummary, console, csv, slack, error>>

\* Variant that saves the records collected so far before it exits.
MainCatch_SavePartial ==
    /\ pc = "failed"
    /\ console' = console \o <<LogError("Error")>>
    /\ csv' = Some(generateCSV(allData))
    /\ exitCode' = Some(1)
    /\ pc' = "exited"
    /\ UNCHANGED <<worldVars, teamVars, durationVars, statsVars, memberVars, fetchVars,
                   data, metrics, weeklySummary, slack, requests, error>>

\* The catch block of main(): the error is written to stderr and the process
\* exits with status 1
MainCatch ==
    /\ pc = "failed"
    /\ console' = console \o
          (IF error = Some("rate limit")
           THEN <<LogError("Error"), Log("Hit API rate limit")>>
           ELSE <<LogError("Error"), LogError("stack")>>)
    /\ exitCode' = Some(1)
    /\ pc' = "exited"
    /\ UNCHANGED <<worldVars, teamVars, durationVars, statsVars, memberVars, fetchVars,
                   data, metrics, weeklySummary, csv, slack, requests, error>>

Next ==
    \/ CheckRateLimit
    \/ FetchOrgMembers
    \/ BuildExcludeList
    \/ FetchTeam
    \/ SearchIssues
    \/ ProcessIssue
    \/ IssuesReturn
    \/ SearchPRs
    \/ StartBatch
    \/ \E k \in 1 .. BATCH_SIZE : DetailResponse(k)
    \/ \E k \in 1 .. BATCH_SIZE : LookupResponse(k)
    \/ BatchDone
    \/ PRsReturn
    \/ LogRateLimitError
    \/ Report
    \/ SaveCSV
    \/ PostToSlack
    \/ FinalCheckRateLimit
    \/ MainCatch

(***************************************************************************)
(* The runs checked: configurations, remote contents and faults            *)
(***************************************************************************)
Bot == "dependabot[bot]"
Roster == {"alice", "bob", "dan"}
OrgRosters == {Roster, Roster \cup {Bot}}
TeamRosters == [core |-> {"bob"}, docs |-> {"dan"}]

Config(repositories) ==
    [repositories |-> repositories,
     excludeTeams |-> <<"core", "docs">>,
     excludeBots |-> <<Bot>>]

\* Friday 1970-01-09 17:00 UTC; responses at 0, 24 and 25 working hours
Created == 209

\* The days given as --start-date and --end-date: 1970-01-01 and 1970-01-31
StartDay == 0
EndDay == 30
EventTimes == {Created, Created + 72, Created + 73}

Comment(user, at) == [user |-> user, created_at |-> at]
Review(user, at) == [user |-> user, submitted_at |-> at]

Item(number, user, isPR, state, comments, reviewComments, reviews, merged_at, merged_by) ==
    [number |-> number, title |-> "title", user |-> user, created_at |-> Created,
     html_url |-> "url", state |-> state, pull_request |-> isPR,
     comments |-> comments, reviewComments |-> reviewComments, reviews |-> reviews,
     merged_at |-> merged_at, merged_by |-> merged_by]

Issue(number, user, comments) ==
    Item(number, user, FALSE, "open", comments, <<>>, <<>>, Null, "")

PullRequest(number, user, state, comments, reviewComments, reviews, merged_at, merged_by) ==
    Item(number, user, TRUE, state, comments, reviewComments, reviews, merged_at, merged_by)

\* process.env of a run without a Slack webhook
NoSlack == [SLACK_WEBHOOK_URL |-> "", SLACK_POST_FULL_REPORT |-> ""]

World(members, repositories, issuesOf, prsOf, fs) ==
    [config |-> Config(repositories),
     env |-> NoSlack,
     remote |-> [members |-> members, teams |-> TeamRosters,
                 issues |-> issuesOf, prs |-> prsOf],
     faults |-> fs]

\* Streams of at most one event
UpToOne(events) == {<<>>} \cup {<<e>> : e \in events}

\* Streams of at most two events, oldest first
UpToTwo(events) ==
    UpToOne(events) \cup
        {pair \in events \X events : pair[1].created_at <= pair[2].created_at}

\* One repository holding one pull request by an outside contributor, with
\* every combination of short comment, review-comment and review streams and
\* of merge status
MergeStatus == {<<Null, "">>} \cup {<<Some(t), u>> : t \in EventTimes, u \in {"alice", "carol"}}

OnePRWorlds ==
    {World(m, <<"r1">>, [r1 |-> <<>>],
           [r1 |-> <<PullRequest(7, "carol", st[1], cs, rcs, rvs, st[2][1], st[2][2])>>], {}) :
        m \in OrgRosters,
        cs \in UpToOne({Comment(u, t) : u \in {"alice", "bob", "carol"}, t \in EventTimes}),
        rcs \in UpToOne({Comment(u, t) : u \in {"alice", "carol"}, t \in EventTimes}),
        rvs \in UpToOne({Review("alice", at) : at \in {Null} \cup {Some(t) : t \in EventTimes}}
                            \cup {Review("carol", Some(Created))}),
        st \in ({"closed"} \X MergeStatus) \cup {<<"open", <<Null, "">>>>}}

\* One repository holding one issue, for every author and every short
\* comment stream
Logins == {"alice", "bob", "carol", Bot, ""}

OneIssueWorlds ==
    {World(m, <<"r1">>, [r1 |-> <<Issue(7, a, cs)>>], [r1 |-> <<>>], {}) :
        m \in OrgRosters,
        a \in {"alice", "carol"},
        cs \in UpToTwo({Comment(u, t) : u \in Logins, t \in EventTimes})}

\* One item whose comment stream holds up to MaxComments comments by outside
\* contributors, one of them possibly replaced by a member's comment
MaxComments == 11

LongStream(n, p, u) ==
    [i \in 1 .. n |-> Comment(IF i = p THEN u ELSE "carol", Created + i)]

LongStreams ==
    {LongStream(n, p, u) : n \in 0 .. MaxComments, p \in 0 .. MaxComments, u \in {"alice", "bob"}}

LongStreamWorlds ==
    {World(Roster, <<"r1">>, [r1 |-> <<Issue(7, "carol", cs)>>], [r1 |-> <<>>], {}) :
        cs \in LongStreams}
    \cup
    {World(Roster, <<"r1">>, [r1 |-> <<>>],
           [r1 |-> <<PullRequest(7, "carol", "open", cs, <<>>, <<>>, Null, "")>>], {}) :
        cs \in LongStreams}

\* Items of every author, open and closed
AuthorWorlds ==
    {World(m, <<"r1">>,
           [r1 |-> <<Issue(7, a, <<Comment("alice", Created + 72)>>)>>],
           [r1 |-> <<PullRequest(8, a, st, <<Comment("bob", Created)>>, <<>>, <<>>,
                                 IF st = "closed" THEN Some(Created + 73) ELSE Null,
                                 IF st = "closed" THEN "alice" ELSE "")>>], {}) :
        m \in OrgRosters, a \in Logins \cup {"dan"}, st \in {"open", "closed"}}

\* Two repositories with several items each, with up to two failing remote
\* calls
TwoRepoIssues ==
    [r1 |-> <<Issue(1, "carol", <<Comment("carol", Created), Comment("alice", Created + 72)>>),
              Issue(2, "bob", <<Comment("alice", Created)>>)>>,
     r2 |-> <<Issue(1, "alice", <<>>)>>]

TwoRepoPRs ==
    [r1 |-> <<PullRequest(3, "carol", "closed", <<>>, <<>>, <<>>, Some(Created + 73), "alice"),
              PullRequest(4, "carol", "open", <<>>, <<>>,
                          <<Review("alice", Some(Created + 72))>>, Null, ""),
              PullRequest(5, Bot, "open", <<>>, <<>>, <<>>, Null, "")>>,
     r2 |-> <<PullRequest(2, "carol", "closed", <<Comment("bob", Created)>>, <<>>, <<>>,
                          Null, "")>>]

FaultKinds == {"error", "rate limit"}

Fault(api, target, number, outcome) ==
    [api |-> api, target |-> target, number |-> number, outcome |-> outcome]

PossibleFaults ==
    {Fault("orgs.listMembers", "", 0, o) : o \in FaultKinds}
    \cup {Fault("teams.listMembersInOrg", t, 0, o) : t \in {"core", "docs"}, o \in FaultKinds}
    \cup {Fault(api, r, 0, o) :
            api \in {"search.issues", "search.prs"}, r \in {"r1", "r2"}, o \in FaultKinds}
    \cup {Fault("pulls.get", "r1", 3, o) : o \in FaultKinds}
    \cup {Fault("pulls.get", "r2", 2, o) : o \in FaultKinds}
    \cup {Fault("issues.listComments", "r1", n, o) : n \in {1, 3, 4}, o \in FaultKinds}
    \cup {Fault("pulls.listReviewComments", "r1", 4, o) : o \in FaultKinds}
    \cup {Fault("pulls.listReviews", "r1", 3, o) : o \in FaultKinds}
    \cup {Fault(api, "", 0, o) : api \in {"Bun.write", "slack.webhook"}, o \in FaultKinds}

\* No fault, one fault, or two faults of different calls
FaultSets ==
    {{}} \cup {{f} : f \in PossibleFaults}
         \cup {{pair[1], pair[2]} :
                 pair \in {q \in PossibleFaults \X PossibleFaults :
                              q[1].api # q[2].api \/ q[1].target # q[2].target
                                  \/ q[1].number # q[2].number}}

\* process.env with or without a Slack webhook, for either kind of message
Envs ==
    {NoSlack,
     [SLACK_WEBHOOK_URL |-> "https://hooks.slack.com/services/T", SLACK_POST_FULL_REPORT |-> ""],
     [SLACK_WEBHOOK_URL |-> "https://hooks.slack.com/services/T", SLACK_POST_FULL_REPORT |-> "true"]}

TwoRepoWorlds ==
    {[World(Roster \cup {Bot}, <<"r1", "r2">>, TwoRepoIssues, TwoRepoPRs, fs) EXCEPT !.env = e] :
        fs \in FaultSets, e \in Envs}

\* One repository holding MaxPRs pull requests, more than one batch: the
\* first two and the last one are closed, the eleventh is by a team member,
\* and the detail fetch of the first or of the last one may fail
MaxPRs == 12

ManyPRs ==
    [k \in 1 .. MaxPRs |->
        PullRequest(k,
                    IF k = BATCH_SIZE + 1 THEN "bob" ELSE "carol",
                    IF k \in {1, 2, MaxPRs} THEN "closed" ELSE "open",
                    IF k = 4 THEN <<Comment("alice", Created + 72)>> ELSE <<>>,
                    <<>>, <<>>,
                    IF k = 1 THEN Some(Created + 73) ELSE Null,
                    IF k = 1 THEN "alice" ELSE "")]

ManyPRWorlds ==
    {World(Roster, <<"r1">>, [r1 |-> <<>>], [r1 |-> ManyPRs], fs) :
        fs \in {{}} \cup {{Fault("pulls.get", "r1", k, o)} : k \in {1, MaxPRs}, o \in FaultKinds}}

\* One repository holding one pull request that the search reports open and
\* that a member has merged since
StaleSearchWorlds ==
    {World(Roster, <<"r1">>, [r1 |-> <<>>],
           [r1 |-> <<PullRequest(7, "carol", "open", cs, <<>>, <<>>, Some(Created), "alice")>>],
           {}) :
        cs \in UpToOne({Comment("alice", t) : t \in EventTimes})}

Worlds == OnePRWorlds \cup OneIssueWorlds \cup LongStreamWorlds \cup AuthorWorlds
              \cup TwoRepoWorlds \cup ManyPRWorlds \cup StaleSearchWorlds

\* The state after new GitHubAnalytics(config), before main() awaits anything
Init ==
    /\ tz = 0
    /\ NoDurations
    /\ NoTeams
    /\ NoStats
    /\ NoMetrics
    /\ \E w \in Worlds :
          /\ config = w.config
          /\ env = w.env
          /\ startDate = parseArgs(StartDay, EndDay, tz).startDate
          /\ endDate = parseArgs(StartDay, EndDay, tz).endDate
          /\ remote = w.remote
          /\ faults = w.faults
    /\ orgMembers = {}
    /\ excludedUsers = {}
    /\ pc = "checkRateLimit"
    /\ teamIdx = 0
    /\ repoIdx = 0
    /\ searchResults = <<>>
    /\ issueIdx = 0
    /\ issues = <<>>
    /\ prs = <<>>
    /\ batchStart = 0
    /\ tasks = <<>>
    /\ allData = <<>>
    /\ requests = {}
    /\ error = Null
    /\ console = <<>>
    /\ csv = Null
    /\ slack = Null
    /\ exitCode = Null

Spec == Init /\ [][Next]_vars

(***************************************************************************)
(* Properties of the records (checked under Spec)                          *)
(***************************************************************************)
\* Every record assembled so far, wherever it is held
Records ==
    Range(allData) \cup Range(issues) \cup Range(prs)
        \cup {tasks[k].result[1] : k \in {j \in 1 .. Len(tasks) : tasks[j].result # Null}}

ItemsOf(repo, type) ==
    Range(IF type = "issue" THEN remote.issues[repo] ELSE remote.prs[repo])

\* The remote item a record was assembled from
ItemOf(rec) ==
    CHOOSE item \in ItemsOf(rec.repository, rec.type) : item.number = rec.number

RosterEvents(page) ==
    {[date |-> c.created_at, author |-> c.user] :
        c \in {x \in Range(page) : x.user \in orgMembers}}

\* The events of the four sources of a pull request that are authored by a
\* member of the cached organization roster
QualifyingEvents(item) ==
    RosterEvents(FirstPage(item.comments, PER_PAGE))
    \cup RosterEvents(FirstPage(item.reviewComments, PER_PAGE))
    \cup {[date |-> r.submitted_at[1], author |-> r.user] :
            r \in {x \in Range(FirstPage(item.reviews, PER_PAGE)) :
                      x.user \in orgMembers /\ x.submitted_at # Null}}
    \cup (IF item.state = "closed" /\ item.merged_at # Null /\ item.merged_by \in orgMembers
          THEN {[date |-> item.merged_at[1], author |-> item.merged_by]}
          ELSE {})

ListingsFetched(rec) ==
    \A req \in lookupRequests(rec.repository, ItemOf(rec), rec.type) :
        Outcome(req.api, req.target, req.number) = "ok"

\* C1: for a pull request whose listings were fetched, the first response is
\* an event of minimum timestamp among the qualifying events of the four
\* sources (comments, review comments, submitted reviews, merge by a
\* responder), and it is null exactly when there is none; a closed pull
\* request without comments or reviews that a responder merged is answered at
\* the merge instant by the merger.
C1_EarliestOfFourSources ==
    \A rec \in Records :
        (rec.type = "pr" /\ ListingsFetched(rec)) =>
            LET item == ItemOf(rec)
                q == QualifyingEvents(item)
            IN /\ rec.firstResponseAt = Null <=> q = {}
               /\ q # {} =>
                    /\ [date |-> rec.firstResponseAt[1], author |-> rec.respondedBy[1]] \in q
                    /\ \A e \in q : rec.firstResponseAt[1] <= e.date
               /\ (/\ item.comments = <<>> /\ item.reviewComments = <<>>
                   /\ item.reviews = <<>>
                   /\ item.state = "closed" /\ item.merged_at # Null
                   /\ item.merged_by \in orgMembers)
                      => (/\ rec.firstResponseAt = item.merged_at
                          /\ rec.respondedBy = Some(item.merged_by))

C1_Witness ==
    /\ pc = "fetched"
    /\ \E rec \in Range(allData) :
          /\ rec.type = "pr"
          /\ ListingsFetched(rec)
          /\ Cardinality({e.date : e \in QualifyingEvents(ItemOf(rec))}) = 3
          /\ ItemOf(rec).merged_at # Null
          /\ rec.firstResponseAt = ItemOf(rec).merged_at
          /\ rec.respondedBy = Some(ItemOf(rec).merged_by)

\* C2: for an issue whose listing was fetched, the first response is the
\* earliest comment by a roster member among the first 10 comments, oldest
\* first, and it is null when none of those 10 qualifies, whatever the 11th
\* and later comments are.
C2_FirstTenCommentsOnly ==
    \A rec \in Records :
        (rec.type = "issue" /\ ListingsFetched(rec)) =>
            LET all == ItemOf(rec).comments
                hits == {i \in 1 .. Len(all) : i <= 10 /\ all[i].user \in orgMembers}
            IN IF hits = {}
               THEN rec.firstResponseAt = Null /\ rec.respondedBy = Null
               ELSE \E i \in hits :
                       /\ \A j \in hits : i <= j
                       /\ rec.firstResponseAt = Some(all[i].created_at)
                       /\ rec.respondedBy = Some(all[i].user)

C2_Witness ==
    /\ pc = "fetched"
    /\ \E rec \in Range(allData) :
          /\ rec.type = "issue"
          /\ ListingsFetched(rec)
          /\ Len(ItemOf(rec).comments) = 11
          /\ ItemOf(rec).comments[11].user \in orgMembers
          /\ rec.firstResponseAt = Null

\* C3: a user of the exclusion set is never the first responder of a record.
C3_ExcludedNeverResponds ==
    \A rec \in Records :
        rec.respondedBy # Null => rec.respondedBy[1] \notin excludedUsers

\* C4: an issue or pull request whose author is in the exclusion set yields
\* no record, in fetchAllData's result or anywhere else, and no detail or
\* response lookup is issued for it.
C4_ExcludedAuthorDropped ==
    \A repo \in Range(config.repositories) : \A type \in {"issue", "pr"} :
        \A item \in ItemsOf(repo, type) :
            item.user \in excludedUsers =>
                /\ ~\E rec \in Records :
                      rec.repository = repo /\ rec.type = type /\ rec.number = item.number
                /\ ~\E req \in requests :
                      /\ req.api \in PRListings \cup {"pulls.get"}
                      /\ req.target = repo
                      /\ req.number = item.number

C4_Witness ==
    /\ pc = "fetched"
    /\ Len(allData) >= 2
    /\ \E repo \in Range(config.repositories) :
          /\ \E item \in ItemsOf(repo, "issue") : item.user \in excludedUsers
          /\ \E item \in ItemsOf(repo, "pr") : item.user \in excludedUsers

\* C5: no record returned by fetchAllData has a reporter who is in the
\* cached organization-member set.
C5_NoRosterReporter ==
    \A rec \in Range(allData) :
        rec.reportedBy # Null => rec.reportedBy[1] \notin orgMembers

\* The hours of [s, e) that fall on a Monday-to-Friday day
BusinessHoursBetween(s, e) ==
    Cardinality({h \in s .. (e - 1) : ~IsWeekendDay(LocalDay(h, tz))})

\* C6: respondedWithinOneDay is true exactly when a first response exists
\* and the business hours elapsed between creation and it are at most 24.
C6_WithinOneDayIffAtMost24 ==
    \A rec \in Records :
        rec.respondedWithinOneDay <=>
            (/\ rec.firstResponseAt # Null
             /\ BusinessHoursBetween(rec.createdAt, rec.firstResponseAt[1]) <= 24)

C6_Witness ==
    /\ \E rec \in Range(allData) :
          /\ rec.firstResponseAt # Null
          /\ BusinessHoursBetween(rec.createdAt, rec.firstResponseAt[1]) = 24
          /\ rec.respondedWithinOneDay
    /\ \E rec \in Range(allData) :
          /\ rec.firstResponseAt # Null
          /\ BusinessHoursBetween(rec.createdAt, rec.firstResponseAt[1]) = 25
          /\ ~rec.respondedWithinOneDay

\* C7: responseTimeHours is null exactly when there is no first response,
\* and firstResponseAt and respondedBy are null in exactly the same records.
C7_HoursNullIffNoResponse ==
    \A rec \in Records :
        /\ rec.responseTimeHours = Null <=> rec.firstResponseAt = Null
        /\ rec.firstResponseAt = Null <=> rec.respondedBy = Null

C7_Witness ==
    /\ \E rec \in Range(allData) :
          rec.firstResponseAt # Null /\ rec.responseTimeHours = Some(0)
    /\ \E rec \in Range(allData) :
          rec.firstResponseAt = Null /\ rec.responseTimeHours = Null

(***************************************************************************)
(* Properties of failure handling (checked under Spec)                     *)
(***************************************************************************)
CollectionAPIs == {"search.issues", "search.prs", "pulls.get"} \cup PRListings

Exited(code) == pc = "exited" /\ exitCode = Some(code)

ReportDisplayed == Log("report") \in Range(console)

\* The records of a remote item, wherever they are held
RecordsOf(repo, number) ==
    {rec \in Records : rec.repository = repo /\ rec.number = number}

\* The items of the configured repositories whose author is not excluded
Eligible(repo, type) ==
    {item \in ItemsOf(repo, type) :
        item.pull_request = (type = "pr") /\ item.user \notin excludedUsers}

\* C15: a rate-limit failure of a search, a pull-request detail fetch or a
\* comment / review-comment / review listing, once the failing request has
\* been issued, is never absorbed into a record, the run never gets past
\* data collection and it never exits with status 0.
C15_RateLimitAbortsRun ==
    \A f \in faults :
        (/\ f.outcome = "rate limit"
         /\ f.api \in CollectionAPIs
         /\ Request(f.api, f.target, f.number) \in requests)
            => /\ RecordsOf(f.target, f.number) = {}
               /\ pc \notin {"fetched", "saveCSV", "postToSlack", "finalCheckRateLimit"}
               /\ ~Exited(0)

\* C16: a record whose comment, review-comment or review listing failed has
\* no response (firstResponseAt, respondedBy and responseTimeHours null,
\* respondedWithinOneDay false); and when listings are the only calls that
\* fail the run never fails, every eligible item processed so far has its
\* record, and fetchAllData returns one record per eligible item of every
\* repository.
C16_LookupFailureIsPerItem ==
    /\ \A rec \in Records :
          ~ListingsFetched(rec) =>
              /\ rec.firstResponseAt = Null
              /\ rec.respondedBy = Null
              /\ rec.responseTimeHours = Null
              /\ ~rec.respondedWithinOneDay
    /\ (\A f \in faults : f.api \in PRListings) =>
          /\ pc \notin {"failed", "logRateLimit"}
          /\ error = Null
          /\ ~Exited(1)
          /\ pc \in {"fetched", "saveCSV", "postToSlack", "finalCheckRateLimit", "exited"} =>
                \A i \in 1 .. Len(config.repositories) : \A type \in {"issue", "pr"} :
                    \A item \in Eligible(config.repositories[i], type) :
                        Cardinality({k \in 1 .. Len(allData) :
                                        /\ allData[k].repository = config.repositories[i]
                                        /\ allData[k].type = type
                                        /\ allData[k].number = item.number}) = 1

C16_Witness ==
    /\ Exited(0)
    /\ Cardinality(faults) = 2
    /\ \A f \in faults : f.api \in PRListings
    /\ \E f \in faults : f.outcome = "error"
    /\ Len(data) = 5
    /\ \E k \in 1 .. Len(data) :
          /\ k < Len(data)
          /\ ~ListingsFetched(data[k])
          /\ \E c \in Range(ItemOf(data[k]).comments) : c.user \in orgMembers
          /\ data[k].firstResponseAt = Null
          /\ ~data[k].respondedWithinOneDay
          /\ data[k + 1].firstResponseAt # Null

\* C17: when the organization-membership fetch fails the run fails: no member
\* set and no exclusion list is built, no team, search, detail or listing
\* request is ever issued, no record is collected, no report, CSV file or
\* notification is produced, and the process exits with status 1.
C17_OrgFetchFailureIsFatal ==
    (/\ Outcome("orgs.listMembers", "", 0) # "ok"
     /\ Request("orgs.listMembers", "", 0) \in requests)
        => /\ pc \in {"failed", "exited"}
           /\ pc = "exited" => exitCode = Some(1)
           /\ orgMembers = {}
           /\ excludedUsers = {}
           /\ requests = {Request("rateLimit.get", "", 0), Request("orgs.listMembers", "", 0)}
           /\ Records = {}
           /\ data = <<>> /\ metrics = Null /\ weeklySummary = Null
           /\ ~ReportDisplayed
           /\ csv = Null
           /\ slack = Null

C17_Witness ==
    /\ Outcome("orgs.listMembers", "", 0) = "error"
    /\ Exited(1)
    /\ env.SLACK_WEBHOOK_URL # ""
    /\ requests = {Request("rateLimit.get", "", 0), Request("orgs.listMembers", "", 0)}
    /\ console = <<LogError("Error"), LogError("stack")>>

\* The teams of the configuration whose roster fetch succeeds
TeamsFetched ==
    {t \in Range(config.excludeTeams) : Outcome("teams.listMembersInOrg", t, 0) = "ok"}

\* C18: a failed team-roster fetch is not fatal: every team is still
\* requested, the exclusion set built is the listed bots together with the
\* rosters of exactly the teams whose fetch succeeded, and the run goes on
\* to data collection (when team fetches are the only calls that fail the
\* run never fails).
C18_TeamFetchFailureIsNotFatal ==
    /\ (/\ Outcome("orgs.listMembers", "", 0) = "ok"
        /\ pc \notin {"checkRateLimit", "fetchOrgMembers", "buildExcludeList", "teams"})
          => /\ \A t \in Range(config.excludeTeams) :
                   Request("teams.listMembersInOrg", t, 0) \in requests
             /\ excludedUsers = Range(config.excludeBots)
                                   \cup UNION {remote.teams[t] : t \in TeamsFetched}
             /\ Request("search.issues", config.repositories[1], 0) \in requests
                   \/ pc = "fetchIssues"
    /\ (\A f \in faults : f.api = "teams.listMembersInOrg") =>
          /\ pc \notin {"failed", "logRateLimit"}
          /\ ~Exited(1)

C18_Witness ==
    /\ faults = {Fault("teams.listMembersInOrg", "core", 0, "error")}
    /\ Exited(0)
    /\ excludedUsers = {Bot, "dan"}
    /\ Request("teams.listMembersInOrg", "docs", 0) \in requests
    /\ \E k \in 1 .. Len(data) : data[k].reportedBy = Some("bob")

\* C19 as stated: whenever the run ends with a fatal error, no console
\* report, no CSV file and no notification has been emitted, and the records
\* collected were not handed on.
C19_FailedRunNoReport ==
    Exited(1) =>
        /\ ~ReportDisplayed
        /\ csv = Null
        /\ slack = Null
        /\ data = <<>>

\* C19 as amended: whenever the run ends with a fatal error, no CSV file and
\* no notification has been emitted; when the error arose before
\* fetchAllData returned (also on a later repository after earlier ones were
\* fetched), no console report has been displayed either and the records
\* collected are discarded; the console report has been displayed only when
\* the run failed while writing the CSV file.
C19_FailedRunNoFileNoNotification ==
    Exited(1) =>
        /\ csv = Null
        /\ slack = Null
        /\ Request("slack.webhook", "", 0) \notin requests
        /\ data = <<>> => (~ReportDisplayed /\ metrics = Null /\ weeklySummary = Null)
        /\ ReportDisplayed => (data = allData /\ Outcome("Bun.write", "", 0) # "ok")
        /\ (\E f \in faults : f.api \in CollectionAPIs \cup {"orgs.listMembers"}
                                 /\ error = Some(f.outcome)
                                 /\ Outcome("Bun.write", "", 0) = "ok")
              => ~ReportDisplayed

C19_Witness ==
    /\ Exited(1)
    /\ repoIdx = 2
    /\ Len(allData) = 3
    /\ data = <<>>
    /\ ~ReportDisplayed
    /\ csv = Null
    /\ env.SLACK_WEBHOOK_URL # ""
    /\ slack = Null

\* C20: the notification is attempted only after the console report has
\* been displayed and the CSV file written; when its delivery fails, the
\* failure is logged, nothing is delivered, and the run completes with exit
\* status 0.
C20_SlackFailureIsRecovered ==
    /\ Request("slack.webhook", "", 0) \in requests => (ReportDisplayed /\ csv # Null)
    /\ (/\ Request("slack.webhook", "", 0) \in requests
        /\ Outcome("slack.webhook", "", 0) # "ok"
        /\ pc # "postToSlack")
          => /\ LogError("Failed to post to Slack") \in Range(console)
             /\ slack = Null
             /\ pc \in {"finalCheckRateLimit", "exited"}
             /\ pc = "exited" => exitCode = Some(0)

C20_Witness ==
    /\ Outcome("slack.webhook", "", 0) = "error"
    /\ Exited(0)
    /\ ReportDisplayed
    /\ csv # Null
    /\ slack = Null
    /\ console[Len(console)] = LogError("Failed to post to Slack")


(***************************************************************************)
(* Properties of the order of collection (checked under Spec)              *)
(***************************************************************************)
RepoIndex(repo) ==
    CHOOSE i \in 1 .. Len(config.repositories) : config.repositories[i] = repo

\* The requests issued so far that name a configured repository
RepoRequests == {q \in requests : q.target \in Range(config.repositories)}

\* The remote calls that only fetchPullRequests makes
PRAPIs == {"search.prs", "pulls.get", "pulls.listReviewComments", "pulls.listReviews"}

\* The processPullRequest calls that have not settled
InFlight == {k \in 1 .. Len(tasks) : tasks[k].st \in {"detail", "lookup"}}

\* C21: repositories are collected one after the other in input order and,
\* within a repository, issues before pull requests: no request names a
\* repository later than the current one; while the issues of a repository
\* are searched or processed no pull-request task is in flight and no
\* pull-request call has been made for that repository; the pull-request
\* search starts only after the last issue search result was processed, with
\* a record held for every eligible issue; and the collected list holds the
\* repositories in input order, each one's issue records before its
\* pull-request records.
C21_RepositoriesInOrder ==
    /\ \A q \in RepoRequests : RepoIndex(q.target) <= repoIdx
    /\ pc \in {"fetchIssues", "issueLoop"} =>
          /\ InFlight = {}
          /\ \A q \in RepoRequests : q.target = CurrentRepo => q.api \notin PRAPIs
    /\ pc = "fetchPullRequests" =>
          /\ InFlight = {}
          /\ issueIdx > Len(searchResults)
          /\ \A item \in Eligible(CurrentRepo, "issue") :
                \E rec \in Range(issues) : rec.number = item.number /\ rec.type = "issue"
    /\ \A k \in 1 .. Len(allData) :
          /\ RepoIndex(allData[k].repository) <= repoIdx
          /\ \A l \in (k + 1) .. Len(allData) :
                /\ RepoIndex(allData[k].repository) <= RepoIndex(allData[l].repository)
                /\ allData[k].repository = allData[l].repository =>
                      ~(allData[k].type = "pr" /\ allData[l].type = "issue")

C21_Witness ==
    /\ pc = "fetched"
    /\ Len(config.repositories) = 2
    /\ Len(allData) = 5
    /\ <<allData[1].repository, allData[1].type>> = <<"r1", "issue">>
    /\ <<allData[2].repository, allData[2].type>> = <<"r1", "pr">>
    /\ <<allData[4].repository, allData[4].type>> = <<"r2", "issue">>
    /\ <<allData[5].repository, allData[5].type>> = <<"r2", "pr">>

\* The number of records the collected list holds for an item
Occurrences(repo, type, number) ==
    Cardinality({k \in 1 .. Len(allData) :
                    /\ allData[k].repository = repo
                    /\ allData[k].type = type
                    /\ allData[k].number = number})

\* C22: when fetchAllData has returned, whatever the order in which the
\* pull-request tasks of a batch completed, every issue and every pull request
\* of the search results whose author is not excluded has exactly one record
\* in the returned list.
C22_EveryItemExactlyOnce ==
    pc = "fetched" =>
        \A i \in 1 .. Len(config.repositories) : \A type \in {"issue", "pr"} :
            \A item \in Eligible(config.repositories[i], type) :
                Occurrences(config.repositories[i], type, item.number) = 1

\* A closed pull request whose detail fetch fails with an error other than a
\* rate-limit error
DetailFailed(repo, type, item) ==
    /\ type = "pr"
    /\ item.state = "closed"
    /\ Outcome("pulls.get", repo, item.number) = "error"

\* C22 (amended): when fetchAllData has returned, whatever the order in which
\* the pull-request tasks of a batch completed, every issue and every pull
\* request of the search results whose author is not excluded has exactly one
\* record in the returned list, except a closed pull request whose detail
\* fetch failed with an error other than a rate-limit error, which has none;
\* the list holds nothing else.
C22_EveryItemOnceUnlessDetailFailed ==
    pc = "fetched" =>
        /\ \A i \in 1 .. Len(config.repositories) : \A type \in {"issue", "pr"} :
              \A item \in Eligible(config.repositories[i], type) :
                  Occurrences(config.repositories[i], type, item.number) =
                      IF DetailFailed(config.repositories[i], type, item) THEN 0 ELSE 1
        /\ \A k \in 1 .. Len(allData) :
              \E item \in Eligible(allData[k].repository, allData[k].type) :
                  item.number = allData[k].number

C22_Witness ==
    /\ pc = "fetched"
    /\ faults = {Fault("pulls.get", "r1", 1, "error")}
    /\ Len(remote.prs["r1"]) > BATCH_SIZE
    /\ Len(allData) = Len(remote.prs["r1"]) - 2

\* C23: once a search or a pull-request detail fetch that fails with an
\* error other than a rate-limit error has been requested, the item is never
\* skipped to carry on: fetchAllData does not go on to a later repository and
\* does not return, and the run does not end with status 0.
C23_FetchFailureAbortsRepository ==
    \A f \in faults :
        (/\ f.outcome = "error"
         /\ f.api \in {"search.issues", "search.prs", "pulls.get"}
         /\ Request(f.api, f.target, f.number) \in requests)
            => /\ repoIdx = RepoIndex(f.target)
               /\ pc \notin {"fetched", "saveCSV", "postToSlack", "finalCheckRateLimit"}
               /\ ~Exited(0)

\* C23 (amended): a search that fails with an error other than a rate-limit
\* error is propagated and aborts the repository's fetch: once it has been
\* requested, fetchAllData does not go on to a later repository and does not
\* return, and the run does not end with status 0.  A pull-request detail
\* fetch that fails with such an error is recovered locally: the pull request
\* gets no record and, when nothing else fails, the run does not fail.
C23_SearchFailureAbortsDetailFailureSkips ==
    \A f \in faults :
        (f.outcome = "error" /\ Request(f.api, f.target, f.number) \in requests) =>
            /\ f.api \in {"search.issues", "search.prs"} =>
                  /\ repoIdx = RepoIndex(f.target)
                  /\ pc \notin {"fetched", "saveCSV", "postToSlack", "finalCheckRateLimit"}
                  /\ ~Exited(0)
            /\ f.api = "pulls.get" =>
                  /\ RecordsOf(f.target, f.number) = {}
                  /\ faults = {f} =>
                        /\ pc \notin {"failed", "logRateLimit"}
                        /\ error = Null
                        /\ ~Exited(1)

C23_Witness ==
    /\ faults = {Fault("pulls.get", "r1", 3, "error")}
    /\ Exited(0)
    /\ Len(data) = 4
    /\ \E k \in 1 .. Len(data) : data[k].repository = "r2" /\ data[k].type = "pr"

\* The item-level requests issued so far: detail fetches and listings
ItemRequests == {q \in requests : q.api \in {"pulls.get"} \cup PRListings}

\* A processPullRequest call of the current batch has thrown a rate-limit error
BatchRejected == \E k \in 1 .. Len(tasks) : tasks[k].st = "rejected"

\* C24: once a pull-request task of a batch has raised a rate-limit error, no
\* step of the run issues a further item-level request.
C24_NoRequestAfterRateLimit ==
    [][BatchRejected => ItemRequests' = ItemRequests]_vars

\* C24 (amended): once a pull-request task of a batch has raised a rate-limit
\* error, no later batch and no later repository is started and no record is
\* appended or returned; the calls of the same batch that are still in flight
\* are not cancelled, and the only item-level requests issued from then on are
\* the listings of pull requests of that batch whose detail fetch was in
\* flight.
C24_RateLimitStopsLaterBatches ==
    [][BatchRejected =>
          /\ UNCHANGED <<batchStart, repoIdx, searchResults, prs, allData>>
          /\ Len(tasks') = Len(tasks)
          /\ \A k \in 1 .. Len(tasks) : tasks'[k].pr = tasks[k].pr
          /\ pc' \in {"logRateLimit", "failed", "exited"}
          /\ (ItemRequests' \ ItemRequests) \subseteq
                UNION {lookupRequests(CurrentRepo, tasks[k].pr, "pr") :
                          k \in {j \in 1 .. Len(tasks) : tasks[j].st = "detail"}}]_vars

C24_Witness ==
    /\ pc = "failed"
    /\ exitCode = Null
    /\ Len(tasks) >= 2
    /\ tasks[1].st = "rejected"
    /\ tasks[2].st = "lookup"
    /\ tasks[2].prDetails # Null
    /\ \E k \in 1 .. Len(tasks) : tasks[k].st = "resolved" /\ tasks[k].result # Null
    /\ prs = <<>>

\* fetchPullRequests holds the pull requests of the search and has not
\* failed in the search itself
InBatches == pc \in {"batchStart", "batch"} \/ (pc = "logRateLimit" /\ BatchRejected)

\* The position of a pull request in the search results
PositionOf(number) ==
    CHOOSE k \in 1 .. Len(searchResults) : searchResults[k].number = number

\* C25: at most BATCH_SIZE (10) processPullRequest calls are in flight at any
\* time; the calls held are those of the current batch only, and no
\* item-level request has been issued for a pull request of a later batch, so
\* no call of a batch starts before every call of the batch before it has
\* completed; and the records collected hold no pull request of the current
\* or of a later batch: a batch's records are appended only when the whole
\* batch has completed.
C25_BoundedSequentialBatches ==
    /\ Cardinality(InFlight) <= 10
    /\ Len(tasks) <= BATCH_SIZE
    /\ InBatches =>
          /\ \A k \in 1 .. Len(tasks) : tasks[k].pr = searchResults[batchStart + k]
          /\ \A k \in 1 .. Len(searchResults) :
                (\E q \in ItemRequests :
                    q.target = CurrentRepo /\ q.number = searchResults[k].number)
                    => k <= batchStart + (IF pc = "batchStart" THEN 0 ELSE BATCH_SIZE)
          /\ \A rec \in Range(prs) : PositionOf(rec.number) <= batchStart
          /\ pc = "batchStart" => InFlight = {}

C25_Witness ==
    /\ pc = "batch"
    /\ batchStart = BATCH_SIZE
    /\ Len(searchResults) > BATCH_SIZE
    /\ Len(prs) = BATCH_SIZE
    /\ InFlight # {}

\* C27: the details of a pull request are fetched only when the search
\* reports it closed: every detail request names a closed pull request, no
\* call holds details of one that is not closed, and the first response
\* recorded for such a pull request is never its merge: it is null or an
\* event of its comment, review-comment or review listings.
C27_DetailsOnlyForClosed ==
    /\ \A q \in requests :
          q.api = "pulls.get" =>
              \E item \in ItemsOf(q.target, "pr") :
                  item.number = q.number /\ item.state = "closed"
    /\ \A k \in 1 .. Len(tasks) :
          tasks[k].pr.state # "closed" => tasks[k].prDetails = Null
    /\ \A rec \in Records :
          (rec.type = "pr" /\ ItemOf(rec).state # "closed" /\ rec.firstResponseAt # Null) =>
              [date |-> rec.firstResponseAt[1], author |-> rec.respondedBy[1]] \in
                  RosterEvents(ItemOf(rec).comments)
                      \cup RosterEvents(ItemOf(rec).reviewComments)
                      \cup {[date |-> r.submitted_at[1], author |-> r.user] :
                              r \in {x \in Range(ItemOf(rec).reviews) : x.submitted_at # Null}}

C27_Witness ==
    /\ pc = "fetched"
    /\ \E rec \in Range(allData) :
          /\ rec.type = "pr"
          /\ ItemOf(rec).state = "open"
          /\ ItemOf(rec).merged_at = Some(Created)
          /\ ItemOf(rec).merged_by \in orgMembers
          /\ rec.firstResponseAt = Some(Created + 72)
          /\ Request("pulls.get", rec.repository, rec.number) \notin requests

\* What buildExcludeList leaves in excludedUsers: the bots and the rosters of
\* the teams whose fetch succeeds
ExcludeListBuilt ==
    Range(config.excludeBots) \cup
        UNION {remote.teams[t] :
                  t \in {x \in Range(config.excludeTeams) :
                            Outcome("teams.listMembersInOrg", x, 0) = "ok"}}

\* C28: the membership sets are complete before the first search or item
\* lookup and are only read from then on: once a request names a repository,
\* orgMembers is the organization's roster, every configured team's roster
\* has been requested, excludedUsers is the bots and the rosters that could
\* be fetched, and no step changes either set.
C28_MembershipBuiltThenReadOnly ==
    /\ [](RepoRequests # {} =>
            /\ orgMembers = remote.members
            /\ excludedUsers = ExcludeListBuilt
            /\ \A t \in Range(config.excludeTeams) :
                  Request("teams.listMembersInOrg", t, 0) \in requests)
    /\ [][RepoRequests # {} => UNCHANGED memberVars]_vars

C28_Witness ==
    /\ pc = "fetched"
    /\ orgMembers = Roster \cup {Bot}
    /\ excludedUsers = {Bot, "bob", "dan"}
    /\ Len(config.repositories) = 2
    /\ Len(allData) = 5

(***************************************************************************)
(* The team cache of the first GitHubAnalytics class on its own:           *)
(* buildRepoTeamCache is called up to MaxCacheBuilds times on one          *)
(* instance, for one or two repositories that each name up to two teams.   *)
(* No code of the repository calls the method, which is public and async:  *)
(* a caller may await each call before the next or start a call while an   *)
(* earlier one waits for a roster, and each call records which it was.     *)
(***************************************************************************)
MaxCacheBuilds == 2

\* Map.prototype.set
MapSet(map, key, value) ==
    [k \in DOMAIN map \cup {key} |-> IF k = key THEN value ELSE map[k]]

\* repo.teams.forEach(team => allTeams.add(team)): a Set keeps insertion order
RECURSIVE addTeams(_, _, _)
addTeams(teams, i, acc) ==
    IF i > Len(teams) THEN acc
    ELSE addTeams(teams, i + 1,
                  IF teams[i] \in Range(acc) THEN acc ELSE Append(acc, teams[i]))

\* repositories.forEach(repo => ...)
RECURSIVE collectTeams(_, _, _)
collectTeams(repositories, i, acc) ==
    IF i > Len(repositories) THEN acc
    ELSE collectTeams(repositories, i + 1, addTeams(repositories[i].teams, 1, acc))

\* buildRepoTeamCache: the members of a repository's teams that are cached
RECURSIVE cachedMembers(_, _, _)
cachedMembers(teams, i, allMembers) ==
    IF i > Len(teams) THEN allMembers
    ELSE cachedMembers(teams, i + 1,
                       IF teams[i] \in DOMAIN teamMembersCache
                       THEN allMembers \cup teamMembersCache[teams[i]]
                       ELSE allMembers)

\* buildRepoTeamCache: the loop that sets repoTeamMembers for each repository
RECURSIVE setRepoTeamMembers(_, _, _)
setRepoTeamMembers(repositories, i, map) ==
    IF i > Len(repositories) THEN map
    ELSE setRepoTeamMembers(repositories, i + 1,
                            MapSet(map, repositories[i].name,
                                   cachedMembers(repositories[i].teams, 1, {})))

\* Variant of fetchTeamMembers that does not look into the cache first.
fetchTeamMembers_NoCacheLookup(c, calls, remaining) ==
    /\ builds' = [calls EXCEPT ![c].pc = "listMembersInOrg", ![c].allTeams = remaining]
    /\ teamCalls' = Append(teamCalls, Head(remaining))
    /\ requests' = requests \cup {Request("teams.listMembersInOrg", Head(remaining), 0)}
    /\ UNCHANGED repoTeamMembers

\* fetchTeamMembers(teamSlug) up to its await, for the first of the slugs
\* that remain: a cached roster is returned as it is and the caller awaits
\* the settled promise; otherwise the roster is requested
fetchTeamMembers(c, calls, remaining) ==
    IF Head(remaining) \in DOMAIN teamMembersCache
    THEN /\ builds' = [calls EXCEPT ![c].pc = "await", ![c].allTeams = remaining]
         /\ UNCHANGED <<teamCalls, requests, repoTeamMembers>>
    ELSE /\ builds' = [calls EXCEPT ![c].pc = "listMembersInOrg",
                                    ![c].allTeams = remaining]
         /\ teamCalls' = Append(teamCalls, Head(remaining))
         /\ requests' = requests \cup {Request("teams.listMembersInOrg",
                                                Head(remaining), 0)}
         /\ UNCHANGED repoTeamMembers

\* buildRepoTeamCache after its loop over allTeams: the per-repository sets
\* are built and the call returns
BuildRepoSets(c, calls) ==
    /\ repoTeamMembers' = setRepoTeamMembers(config.repositories, 1, repoTeamMembers)
    /\ builds' = [calls EXCEPT ![c].pc = "returned", ![c].allTeams = <<>>]
    /\ UNCHANGED <<teamCalls, requests>>

\* for (const teamSlug of allTeams) await this.fetchTeamMembers(teamSlug):
\* the loop goes on with the slugs that remain, up to its next await
forAllTeams(c, calls, remaining) ==
    IF remaining = <<>> THEN BuildRepoSets(c, calls)
    ELSE fetchTeamMembers(c, calls, remaining)

\* buildRepoTeamCache(repositories) is called and runs to its first await:
\* allTeams is collected and the first roster looked up.  Nothing in the
\* method keeps a call from starting while an earlier one is waiting;
\* awaited records whether every earlier call had returned
BuildRepoTeamCache ==
    /\ pc = "idle"
    /\ Len(builds) < MaxCacheBuilds
    /\ forAllTeams(Len(builds) + 1,
                   Append(builds,
                          [pc |-> "called", allTeams |-> <<>>,
                           awaited |-> \A c \in 1 .. Len(builds) :
                                          builds[c].pc = "returned"]),
                   collectTeams(config.repositories, 1, <<>>))
    /\ UNCHANGED <<worldVars, durationVars, statsVars, memberVars, fetchVars, reportVars,
                   teamMembersCache, pc, error>>

\* fetchTeamMembers after its await: the roster that has arrived is cached,
\* the empty set when the request failed, and is returned to the loop
ListMembersResponse(c) ==
    /\ c \in 1 .. Len(builds)
    /\ builds[c].pc = "listMembersInOrg"
    /\ LET teamSlug == Head(builds[c].allTeams)
       IN teamMembersCache' =
             MapSet(teamMembersCache, teamSlug,
                    IF Outcome("teams.listMembersInOrg", teamSlug, 0) = "ok"
                    THEN remote.teams[teamSlug] ELSE {})
    /\ builds' = [builds EXCEPT ![c].pc = "await"]
    /\ UNCHANGED <<worldVars, durationVars, statsVars, memberVars, fetchVars, reportVars,
                   repoTeamMembers, teamCalls, pc, requests, error>>

\* buildRepoTeamCache resumes after await this.fetchTeamMembers(teamSlug)
\* and goes on with the next slug
FetchTeamMembersReturn(c) ==
    /\ c \in 1 .. Len(builds)
    /\ builds[c].pc = "await"
    /\ forAllTeams(c, builds, Tail(builds[c].allTeams))
    /\ UNCHANGED <<worldVars, durationVars, statsVars, memberVars, fetchVars, reportVars,
                   teamMembersCache, pc, error>>

NextTeams ==
    \/ BuildRepoTeamCache
    \/ \E c \in 1 .. MaxCacheBuilds : ListMembersResponse(c)
    \/ \E c \in 1 .. MaxCacheBuilds : FetchTeamMembersReturn(c)

TeamSlugs == {"core", "docs", "qa"}

\* A repository names no team, one team, or two, possibly the same twice
TeamLists ==
    {<<>>} \cup {<<t>> : t \in TeamSlugs} \cup {<<t, u>> : t \in TeamSlugs, u \in TeamSlugs}

RepositoryConfigs ==
    {<<[name |-> "r1", teams |-> t1]>> : t1 \in TeamLists}
    \cup {<<[name |-> "r1", teams |-> t1], [name |-> "r2", teams |-> t2]>> :
            t1 \in TeamLists, t2 \in TeamLists}

\* Any set of rosters may fail to be fetched; one may hit the rate limit
TeamFaultSets ==
    {{Fault("teams.listMembersInOrg", t, 0, "error") : t \in ts} : ts \in SUBSET TeamSlugs}
    \cup {{Fault("teams.listMembersInOrg", "core", 0, "rate limit")}}

\* The state after new GitHubAnalytics(config) of the first class
InitTeams ==
    /\ tz = 0
    /\ NoDurations
    /\ NoStats
    /\ NoMetrics
    /\ config \in {[repositories |-> r, excludeTeams |-> <<>>, excludeBots |-> <<>>] :
                      r \in RepositoryConfigs}
    /\ env = NoSlack
    /\ startDate = 0
    /\ endDate = 0
    /\ remote = [members |-> {}, issues |-> <<>>, prs |-> <<>>,
                 teams |-> [core |-> {"bob"}, docs |-> {"dan"}, qa |-> {"bob", "erin"}]]
    /\ faults \in TeamFaultSets
    /\ NoTeams
    /\ orgMembers = {}
    /\ excludedUsers = {}
    /\ pc = "idle"
    /\ teamIdx = 0
    /\ repoIdx = 0
    /\ searchResults = <<>>
    /\ issueIdx = 0
    /\ issues = <<>>
    /\ prs = <<>>
    /\ batchStart = 0
    /\ tasks = <<>>
    /\ allData = <<>>
    /\ requests = {}
    /\ error = Null
    /\ console = <<>>
    /\ csv = Null
    /\ slack = Null
    /\ exitCode = Null

SpecTeams == InitTeams /\ [][NextTeams]_vars

\* The number of times a team's roster has been requested
TimesRequested(teamSlug) ==
    Cardinality({i \in 1 .. Len(teamCalls) : teamCalls[i] = teamSlug})

\* Every call of buildRepoTeamCache was made after the calls before it had
\* returned
CallsAwaited == \A c \in 1 .. Len(builds) : builds[c].awaited

C26_OverlapWitness ==
    /\ Len(builds) = 2
    /\ ~builds[2].awaited
    /\ \A c \in 1 .. 2 : builds[c].pc = "returned"
    /\ teamCalls = <<"core", "core">>

(***************************************************************************)
(* calculateStats on its own: the response times are every list of at most *)
(* MaxTimes whole numbers of hours from 1 to MaxTime, in any order.        *)
(***************************************************************************)
MaxTimes == 4
MaxTime == 4

TimeLists == UNION {[1 .. n -> 1 .. MaxTime] : n \in 0 .. MaxTimes}

InitStats ==
    /\ tz = 0
    /\ NoDurations
    /\ NoTeams
    /\ responseTimes \in TimeLists
    /\ stats = Null
    /\ NoRun
    /\ NoMetrics

\* const stats = calculateStats(responseTimes)
CalculateStats ==
    /\ pc = "idle"
    /\ stats = Null
    /\ stats' = Some(calculateStats(responseTimes))
    /\ UNCHANGED <<worldVars, teamVars, durationVars, responseTimes, memberVars, fetchVars,
                   reportVars, pc, requests, error>>

NextStats == CalculateStats

SpecStats == InitStats /\ [][NextStats]_vars

\* The k-th smallest of the values of xs, counted with repetitions
KthSmallest(xs, k) ==
    CHOOSE v \in Range(xs) :
        /\ Cardinality({i \in 1 .. Len(xs) : xs[i] < v}) < k
        /\ k <= Cardinality({i \in 1 .. Len(xs) : xs[i] <= v})

\* C13: for a non-empty input in any order, the median calculateStats returns
\* is the centre element of the ascending order when the count is odd and
\* the average of the two central elements when it is even; [1,2,3] gives 2
\* and [1,2,3,4] gives 2.5.
C13_MedianIsCentre ==
    (stats # Null /\ Len(responseTimes) > 0) =>
        LET n == Len(responseTimes)
            median == stats[1].median
        IN /\ median # Null
           /\ n % 2 = 1 => median[1] = Num(KthSmallest(responseTimes, (n + 1) \div 2))
           /\ n % 2 = 0 =>
                 /\ median[1].den \in {1, 2}
                 /\ median[1].num * 2 =
                        median[1].den * (KthSmallest(responseTimes, n \div 2)
                                           + KthSmallest(responseTimes, n \div 2 + 1))
           /\ responseTimes = <<1, 2, 3>> => median[1] = Num(2)
           /\ responseTimes = <<1, 2, 3, 4>> => median[1] = Quotient(5, 2)

C13_Witness ==
    /\ responseTimes = <<4, 1, 3, 2>>
    /\ stats # Null
    /\ stats[1].median = Some(Quotient(5, 2))

(***************************************************************************)
(* calculateOverallMetrics and calculateWeeklySummary on their own: data   *)
(* is every list of at most MaxRecords records, each the record of an      *)
(* issue or a pull request created in one of three weeks, unanswered,      *)
(* answered at once or answered after LateResponse hours.                  *)
(***************************************************************************)
MaxRecords == 3
LateResponse == 100

\* Friday 17:00, the Sunday after it, and the Monday of the third week
SampleCreated == {Created, Created + 48, Created + 240}

SampleItem(created_at) ==
    [Item(7, "carol", FALSE, "open", <<>>, <<>>, <<>>, Null, "") EXCEPT
        !.created_at = created_at]

SampleResponses(created_at) ==
    {Null} \cup {Some([respondedAt |-> created_at + d, respondedBy |-> "alice"]) :
                    d \in {0, LateResponse}}

SampleRecords ==
    UNION {{IssueData("r1", SampleItem(t), type, response) :
               type \in {"issue", "pr"}, response \in SampleResponses(t)} :
           t \in SampleCreated}

RecordLists == UNION {[1 .. n -> SampleRecords] : n \in 0 .. MaxRecords}

InitMetrics ==
    /\ tz = 0
    /\ NoDurations
    /\ NoTeams
    /\ data \in RecordLists
    /\ metrics = Null
    /\ weeklySummary = Null
    /\ NoRun
    /\ NoStats

\* const metrics = calculateOverallMetrics(data)
CalculateOverallMetrics ==
    /\ pc = "idle"
    /\ metrics = Null
    /\ metrics' = Some(calculateOverallMetrics(data))
    /\ UNCHANGED <<worldVars, teamVars, durationVars, statsVars, memberVars, fetchVars, data,
                   weeklySummary, console, csv, slack, exitCode, pc, requests, error>>

\* const weeklySummary = calculateWeeklySummary(data)
CalculateWeeklySummary ==
    /\ pc = "idle"
    /\ weeklySummary = Null
    /\ weeklySummary' = Some(calculateWeeklySummary(data))
    /\ UNCHANGED <<worldVars, teamVars, durationVars, statsVars, memberVars, fetchVars, data,
                   metrics, console, csv, slack, exitCode, pc, requests, error>>

NextMetrics == CalculateOverallMetrics \/ CalculateWeeklySummary

SpecMetrics == InitMetrics /\ [][NextMetrics]_vars

\* The double of x is at most the double of y, for numbers x > 0 and y > 0
DoubleAtMost(x, y) ==
    \/ x.exp < y.exp
    \/ /\ x.exp = y.exp
       /\ \/ x.mant = y.mant
          \/ \E i \in 1 .. Len(x.mant) :
                /\ x.mant[i] < y.mant[i]
                /\ \A j \in 1 .. i - 1 : x.mant[j] = y.mant[j]

Hundred == Num(100)

\* A number between 0 and 100, which NaN and Infinity are not: the exact
\* fraction and the double the program holds are both in the range
IsPercentage(x) ==
    /\ x.den > 0 /\ 0 <= x.num /\ x.num <= 100 * x.den
    /\ (x = Zero \/ DoubleAtMost(x, Hundred))

\* C12: the four rates calculateOverallMetrics yields are each within
\* [0, 100], and each is 0 when the issue partition, respectively the
\* pull-request partition, of the records is empty.
C12_RatesWithinRange ==
    metrics # Null =>
        LET m == metrics[1]
            noIssues == \A k \in 1 .. Len(data) : data[k].type # "issue"
            noPRs == \A k \in 1 .. Len(data) : data[k].type # "pr"
        IN /\ IsPercentage(m.issueResponseRate)
           /\ IsPercentage(m.prResponseRate)
           /\ IsPercentage(m.issueOneDayPercentage)
           /\ IsPercentage(m.prOneDayPercentage)
           /\ noIssues => (m.issueResponseRate = Num(0) /\ m.issueOneDayPercentage = Num(0))
           /\ noPRs => (m.prResponseRate = Num(0) /\ m.prOneDayPercentage = Num(0))

C12_Witness ==
    /\ metrics # Null
    /\ Len(data) = 3
    /\ \A k \in 1 .. Len(data) : data[k].type = "pr"
    /\ metrics[1].issueResponseRate = Num(0)
    /\ metrics[1].prResponseRate = Times(Quotient(2, 3), 100)
    /\ metrics[1].prOneDayPercentage = Times(Quotient(1, 3), 100)

RECURSIVE SumOfTotals(_, _)
SumOfTotals(summaries, i) ==
    IF i > Len(summaries) THEN 0
    ELSE summaries[i].totalIssues + SumOfTotals(summaries, i + 1)

\* C14: calculateWeeklySummary returns exactly one entry per distinct
\* week-start among the records, in strictly ascending week-start order;
\* an entry's total is the number of records of its week and its within-one-
\* day count the number of those answered within one day; the totals sum to
\* the number of records and no entry has total 0.
C14_OneBucketPerWeek ==
    weeklySummary # Null =>
        LET ws == weeklySummary[1]
            InWeek(w) == {k \in 1 .. Len(data) : data[k].weekStarting = w}
        IN /\ {ws[i].weekStarting : i \in 1 .. Len(ws)}
                 = {data[k].weekStarting : k \in 1 .. Len(data)}
           /\ \A i, j \in 1 .. Len(ws) :
                 i < j => ws[i].weekStarting < ws[j].weekStarting
           /\ \A i \in 1 .. Len(ws) :
                 /\ ws[i].totalIssues = Cardinality(InWeek(ws[i].weekStarting))
                 /\ ws[i].respondedWithinOneDay =
                       Cardinality({k \in InWeek(ws[i].weekStarting) :
                                       data[k].respondedWithinOneDay})
                 /\ ws[i].totalIssues > 0
           /\ SumOfTotals(ws, 1) = Len(data)

C14_Witness ==
    /\ weeklySummary # Null
    /\ Len(data) = 3
    /\ data[1].weekStarting > data[2].weekStarting
    /\ data[3].weekStarting = data[1].weekStarting
    /\ data[1].respondedWithinOneDay /\ ~data[3].respondedWithinOneDay
    /\ Len(weeklySummary[1]) = 2
    /\ weeklySummary[1][2].totalIssues = 2
    /\ weeklySummary[1][2].respondedWithinOneDay = 1

(***************************************************************************)
(* calculateWorkingHours over adjacent intervals, as the code computes it: *)
(* here a Date is its getTime(), the milliseconds since the epoch, and the *)
(* hours are doubles.  start <= mid <= end are drawn, for each host        *)
(* offset, from the whole hours every SplitStride hours from Friday        *)
(* 1970-01-09 12:00 UTC to the Monday after, and from the instants every   *)
(* FineStep seconds of the two hours around the midnight that ends         *)
(* Thursday 1970-01-08 UTC.                                                *)
(***************************************************************************)
MsPerSecond == 1000
MsPerHour == 1000 * 60 * 60

FirstSplitInstant == 204
SplitStride == 6
MaxSplitSpan == 12
FirstFineInstant == 191
FineStep == 360
MaxFineSteps == 20

SplitInstants ==
    {(FirstSplitInstant + k * SplitStride) * MsPerHour : k \in 0 .. MaxSplitSpan}
        \cup {FirstFineInstant * MsPerHour + k * FineStep * MsPerSecond :
                 k \in 0 .. MaxFineSteps}

\* The while loop of calculateWorkingHours on getTime() values: a weekday
\* adds the double (endOfPeriod.getTime() - currentDate.getTime()) /
\* (1000 * 60 * 60) to the double hours, here acc
RECURSIVE workingHoursLoopMs(_, _, _, _)
workingHoursLoopMs(currentDate, e, acc, z) ==
    IF currentDate < e
    THEN LET dayOfWeek == getDay(currentDate \div MsPerHour, z)
             nextDay == nextMidnight(currentDate \div MsPerHour, z) * MsPerHour
             endOfPeriod == IF nextDay < e THEN nextDay ELSE e
             periodHours == Quotient(endOfPeriod - currentDate, MsPerHour)
         IN workingHoursLoopMs(nextDay, e,
                IF dayOfWeek # 0 /\ dayOfWeek # 6 THEN Plus(acc, periodHours)
                ELSE acc,
                z)
    ELSE acc

\* Variant that counts from the local midnight before start.
calculateWorkingHoursMs_FromMidnight(s, e, z) ==
    IF e < s THEN Zero
    ELSE workingHoursLoopMs(
             (LocalDay(s \div MsPerHour, z) * HoursPerDay - z) * MsPerHour, e, Zero, z)

calculateWorkingHoursMs(s, e, z) ==
    IF e < s THEN Zero ELSE workingHoursLoopMs(s, e, Zero, z)

InitSplit ==
    /\ tz \in TZOffsets
    /\ start \in SplitInstants
    /\ mid \in {t \in SplitInstants : start <= t}
    /\ end \in {t \in SplitInstants : mid <= t}
    /\ hours = Null
    /\ within = Null
    /\ split = Null
    /\ weekStart = Null
    /\ weekStartStr = Null
    /\ NoRun
    /\ NoTeams
    /\ NoStats
    /\ NoMetrics

\* calculateWorkingHours(start, end), calculateWorkingHours(start, mid) and
\* calculateWorkingHours(mid, end)
CalculateSplit ==
    /\ split = Null
    /\ hours' = Some(calculateWorkingHoursMs(start, end, tz))
    /\ split' = Some(<<calculateWorkingHoursMs(start, mid, tz),
                       calculateWorkingHoursMs(mid, end, tz)>>)
    /\ UNCHANGED <<start, end, mid, within, weekStart, weekStartStr>>
    /\ UNCHANGED <<worldVars, teamVars, statsVars, memberVars, fetchVars, reportVars,
                   pc, requests, error>>

NextSplit == CalculateSplit

SpecSplit == InitSplit /\ [][NextSplit]_vars

\* The numbers x and y are the same double
SameDouble(x, y) == x.mant = y.mant /\ x.exp = y.exp

\* The double of x is at most the double of y, for numbers x >= 0 and y >= 0
NotAbove(x, y) ==
    \/ Len(x.mant) = 0
    \/ Len(y.mant) # 0 /\ DoubleAtMost(x, y)

\* The exact fraction of x is at most that of y
ExactAtMost(x, y) == x.num * y.den <= y.num * x.den

\* (e.getTime() - s.getTime()) / (1000 * 60 * 60): the wall-clock hours
WallClockHours(s, e) == Quotient(e - s, MsPerHour)

\* The instant t is at a whole hour
WholeHour(t) == t % MsPerHour = 0

\* C30 as stated: for all instants a <= b <= c the working hours of (a, c)
\* are the sum of those of (a, b) and of (b, c), they do not decrease when
\* the end moves from b to c, and no interval has more working hours than
\* wall-clock hours.
C30_AdditiveMonotoneBounded ==
    split # Null =>
        /\ SameDouble(hours[1], Plus(split[1][1], split[1][2]))
        /\ NotAbove(split[1][1], hours[1])
        /\ NotAbove(hours[1], WallClockHours(start, end))
        /\ NotAbove(split[1][1], WallClockHours(start, mid))
        /\ NotAbove(split[1][2], WallClockHours(mid, end))

\* C30 (amended): for all instants a <= b <= c the working hours do not
\* decrease when the end moves from b to c, and the time counted, before it
\* is rounded to doubles, is additive and at most the wall-clock time; when
\* a, b and c are at whole hours the doubles returned are additive and none
\* exceeds the wall-clock hours.
C30_AdditiveAtWholeHours ==
    split # Null =>
        LET ac == hours[1]
            ab == split[1][1]
            bc == split[1][2]
            sum == Plus(ab, bc)
        IN /\ NotAbove(ab, ac)
           /\ sum.num = ac.num /\ sum.den = ac.den
           /\ ExactAtMost(ac, WallClockHours(start, end))
           /\ WholeHour(start) /\ WholeHour(mid) /\ WholeHour(end) =>
                 /\ SameDouble(ac, sum)
                 /\ NotAbove(ac, WallClockHours(start, end))
                 /\ NotAbove(ab, WallClockHours(start, mid))
                 /\ NotAbove(bc, WallClockHours(mid, end))

C30_Witness ==
    /\ split # Null
    /\ tz = 0
    /\ WholeHour(start) /\ WholeHour(mid) /\ WholeHour(end)
    /\ getDay(start \div MsPerHour, tz) = 5
    /\ getDay(mid \div MsPerHour, tz) = 6
    /\ getDay(end \div MsPerHour, tz) = 1
    /\ split[1] = <<Num(12), Num(12)>>
    /\ hours[1] = Num(24)
    /\ WallClockHours(start, end) = Num(72)

\* The identity and the bound fail in the last binary digit at instants
\* within the hour: Thursday 23:54 to Friday 00:12 split at midnight
C30_RoundingWitness ==
    /\ split # Null
    /\ tz = 0
    /\ mid = (FirstFineInstant + 1) * MsPerHour
    /\ mid - start = 360 * MsPerSecond
    /\ end - mid = 720 * MsPerSecond
    /\ split[1] = <<Quotient(1, 10), Quotient(2, 10)>>
    /\ ~SameDouble(hours[1], Quotient(3, 10))
    /\ ~NotAbove(hours[1], WallClockHours(start, end))

====
